---- MODULE Spec2Model ----
(***************************************************************************)
(* A model of the discovery-and-reconciliation pipeline of qrunner/arch:   *)
(* the canonical store (internal/store/postgres), the reconciler           *)
(* (internal/reconciler), the graph store projection and the HTTP write    *)
(* handlers, as a state machine whose steps are the store calls the code   *)
(* makes.  Every store call is its own transaction, so every store call is *)
(* its own step.                                                            *)
(***************************************************************************)
EXTENDS Integers, Sequences, FiniteSets, TLC

(***************************************************************************)
(* Bounds of the model.                                                    *)
(***************************************************************************)
\* assets handed to Reconcile in one behaviour
MaxSightings == 3
\* assets in one CollectResult
MaxBatch == 2
\* relationships in one CollectResult
MaxRels == 1
\* store / graph / bus calls that fail in one behaviour
MaxFaults == 1
\* HTTP write requests in one behaviour
MaxApiCalls == 1

(***************************************************************************)
(* Value domains.                                                          *)
(***************************************************************************)
\* a nil *string (model.Asset.FQDN)
NilFQDN == "<nil>"

Sources == {"nmap", "vmware"}

ExternalIDs == {"vm-1", "vm-2"}

Hostnames == {"", "web01"}

IPLists == {<<"10.0.0.5">>, <<"10.0.0.6">>, <<"10.0.0.6", "10.0.0.5">>}

\* what the nmap collector marshals from a host's ports and OS matches
\* (json.Marshal: keys in byte order, no spaces)
NmapAttributes == "{\"os_match\":\"\",\"ports\":null}"

AssetStatusActive == "active"

AssetStatusStale == "stale"

AssetStatusRemoved == "removed"

AssetStatuses == {AssetStatusActive, AssetStatusStale, AssetStatusRemoved}

ChangeActionCreated == "asset.created"

ChangeActionUpdated == "asset.updated"

\* the goroutines that call Reconcile: a collector's loop and a run_now task
Tasks == {"worker", "run_now"}

\* "no asset": the nil *model.Asset
NoAsset == [id |-> 0]

\* notifier.New: no rules; event and sent are what the last Evaluate was
\* given and what it handed to the channels
NewNotifier(webhookURL) ==
    [rules |-> <<>>, webhookURL |-> webhookURL, event |-> [action |-> ""],
     sent |-> <<>>, posted |-> <<>>]


(***************************************************************************)
(* State.                                                                  *)
(***************************************************************************)
VARIABLES
    assets,         \* table assets: the set of rows
    change_events,  \* table change_events, in insertion order
    bus,            \* messages accepted by the event publisher, in order
    nodes,          \* graph store: the Asset nodes
    edges,          \* graph store: the relationship edges
    clock,          \* the wall clock time.Now() reads
    uuid,           \* the last UUID handed out by uuid.New()
    publisher,      \* Reconciler.publisher is set (FALSE: nil)
    neoStore,       \* Reconciler.neoStore / Server.neoStore is set (FALSE: nil)
    task,           \* per goroutine: position in Reconcile and its locals
    faults,         \* failed calls so far
    sightings,      \* reconcileAsset calls so far
    apiCalls,       \* HTTP write requests so far
    quota,          \* what one behaviour may use: sightings, faults, api, tasks, starts
    scheduler,      \* the Scheduler: cancel, wg, contexts made, the Stop call
    workers,        \* per runCollectorLoop goroutine: position, ticker, bodies
    adhoc,          \* the goroutine RunCollectorNow started
    registry,       \* the Registry: its maps and the status objects they point to
    client,         \* the last call of a caller of the registry, the graph
                    \* store or the list operation, and what it was given back
    notifier        \* the Notifier: rules, webhookURL, and what its last
                    \* Evaluate was given and sent

\* the state of the scheduler, the registry and the notifier, and of their
\* callers
schedVars == <<scheduler, workers, adhoc, registry, client, notifier>>

\* the state of the stores and the reconciler
recVars == <<assets, change_events, bus, nodes, edges, clock, uuid, publisher,
             neoStore, task, faults, sightings, apiCalls, quota>>

vars == <<assets, change_events, bus, nodes, edges, clock, uuid, publisher,
          neoStore, task, faults, sightings, apiCalls, quota, schedVars>>

(***************************************************************************)
(* Pure helpers.                                                           *)
(***************************************************************************)
\* the text PostgreSQL returns for a JSONB value: keys and values are
\* separated by ": " whatever text was written
Jsonb(blob) ==
    IF blob = NmapAttributes THEN "{\"ports\": null, \"os_match\": \"\"}" ELSE blob

\* the elements of a Go slice
Elems(s) ==
    {s[n] : n \in DOMAIN s}

\* a Go map[string]any that is nil (publishEvent's diff for a new asset)
NilDiff == [isNil |-> TRUE, entries |-> {}]

\* a marshaller that writes the nil map as the empty object
MarshalNilAsObject(diff) ==
    [null |-> FALSE, object |-> diff.entries]

\* json.Marshal of a diff map: "null" for the nil map, an object otherwise
Marshal(diff) ==
    [null |-> diff.isNil, object |-> diff.entries]

\* a detectChanges that also reports a changed address list
detectChangesWithAddresses(existing, incoming) ==
    LET existingFQDN == IF existing.fqdn = NilFQDN THEN "" ELSE existing.fqdn
        incomingFQDN == IF incoming.fqdn = NilFQDN THEN "" ELSE incoming.fqdn
    IN  [isNil |-> FALSE,
         entries |->
            (IF existing.name # incoming.name
                THEN {[field |-> "name", old |-> existing.name, new |-> incoming.name]}
                ELSE {})
            \cup
            (IF existingFQDN # incomingFQDN
                THEN {[field |-> "fqdn", old |-> existingFQDN, new |-> incomingFQDN]}
                ELSE {})
            \cup
            (IF existing.attributes # incoming.attributes
                THEN {[field |-> "attributes", old |-> existing.attributes,
                       new |-> incoming.attributes]}
                ELSE {})
            \cup
            (IF existing.ip_addresses # incoming.ip_addresses
                THEN {[field |-> "ip_addresses", old |-> "", new |-> ""]}
                ELSE {})]

\* detectChanges: the changed fields among name, fqdn, attributes
detectChanges(existing, incoming) ==
    LET existingFQDN == IF existing.fqdn = NilFQDN THEN "" ELSE existing.fqdn
        incomingFQDN == IF incoming.fqdn = NilFQDN THEN "" ELSE incoming.fqdn
    IN  [isNil |-> FALSE,
         entries |->
            (IF existing.name # incoming.name
                THEN {[field |-> "name", old |-> existing.name, new |-> incoming.name]}
                ELSE {})
            \cup
            (IF existingFQDN # incomingFQDN
                THEN {[field |-> "fqdn", old |-> existingFQDN, new |-> incomingFQDN]}
                ELSE {})
            \cup
            (IF existing.attributes # incoming.attributes
                THEN {[field |-> "attributes", old |-> existing.attributes,
                       new |-> incoming.attributes]}
                ELSE {})]

\* len(diff)
DiffLen(diff) ==
    Cardinality(diff.entries)

(***************************************************************************)
(* Canonical store (internal/store/postgres).  Operators give the result   *)
(* of one call on the current table.                                       *)
(***************************************************************************)
\* SELECT ... WHERE source = $1 AND external_id = $2; pgx.ErrNoRows gives nil
GetByExternalID(source, externalID) ==
    LET found == {a \in assets : a.source = source /\ a.external_id = externalID}
    IN  IF found = {} THEN NoAsset ELSE CHOOSE a \in found : TRUE

\* SELECT ... WHERE id = $1
GetByID(id) ==
    LET found == {a \in assets : a.id = id}
    IN  IF found = {} THEN NoAsset ELSE CHOOSE a \in found : TRUE

\* SELECT ... WHERE $1 = ANY(ip_addresses)
FindByIP(ip) ==
    {a \in assets : ip \in Elems(a.ip_addresses)}

\* SELECT ... WHERE fqdn = $1 (a NULL fqdn equals nothing)
FindByFQDN(fqdn) ==
    {a \in assets : a.fqdn # NilFQDN /\ a.fqdn = fqdn}

\* the INSERT is refused by the primary key or by idx_assets_source_external_id
UniqueViolation(asset) ==
    \E a \in assets :
        \/ a.id = asset.id
        \/ a.source = asset.source /\ a.external_id = asset.external_id

\* INSERT INTO assets: the table after a successful Create
Create(asset) ==
    assets \cup {[asset EXCEPT !.attributes = Jsonb(asset.attributes)]}

\* an UPDATE that writes the caller's updated_at instead of stamping it
UpdateAsGiven(asset, updatedAt) ==
    {IF a.id = asset.id
        THEN [a EXCEPT !.external_id = asset.external_id,
                       !.source = asset.source,
                       !.asset_type = asset.asset_type,
                       !.name = asset.name,
                       !.fqdn = asset.fqdn,
                       !.ip_addresses = asset.ip_addresses,
                       !.attributes = Jsonb(asset.attributes),
                       !.last_seen = asset.last_seen,
                       !.status = asset.status,
                       !.updated_at = asset.updated_at]
        ELSE a : a \in assets}

\* UPDATE assets SET ... WHERE id = $1, with updated_at as Store.Update
\* stamped it: first_seen and created_at are not among the columns written
Update(asset, updatedAt) ==
    {IF a.id = asset.id
        THEN [a EXCEPT !.external_id = asset.external_id,
                       !.source = asset.source,
                       !.asset_type = asset.asset_type,
                       !.name = asset.name,
                       !.fqdn = asset.fqdn,
                       !.ip_addresses = asset.ip_addresses,
                       !.attributes = Jsonb(asset.attributes),
                       !.last_seen = asset.last_seen,
                       !.status = asset.status,
                       !.updated_at = updatedAt]
        ELSE a : a \in assets}

\* DELETE FROM assets WHERE id = $1; change_events rows cascade
Delete(id) ==
    {a \in assets : a.id # id}

(***************************************************************************)
(* Graph store (internal/store/neo4j).                                     *)
(***************************************************************************)
\* MERGE (a:Asset {id}) SET name, asset_type, source, status
UpsertNode(asset) ==
    {n \in nodes : n.id # asset.id} \cup
        {[id |-> asset.id, name |-> asset.name, asset_type |-> asset.asset_type,
          source |-> asset.source, status |-> asset.status]}

\* MATCH (a:Asset {id}) DETACH DELETE a
DeleteNode(id) ==
    [nodes |-> {n \in nodes : n.id # id},
     edges |-> {e \in edges : e.from_id # id /\ e.to_id # id}]

\* MATCH (from), MATCH (to), MERGE (from)-[r:TYPE {id}]->(to) SET r.source:
\* nothing is written unless both nodes exist; the MERGE pattern is the
\* triple of endpoints, type and id
UpsertRelationship(rel) ==
    IF \E n \in nodes : n.id = rel.from_id /\ \E m \in nodes : m.id = rel.to_id
        THEN {e \in edges : ~(e.id = rel.id /\ e.from_id = rel.from_id
                              /\ e.to_id = rel.to_id /\ e.type = rel.type)}
             \cup {[id |-> rel.id, from_id |-> rel.from_id, to_id |-> rel.to_id,
                    type |-> rel.type, source |-> rel.source]}
        ELSE edges

(***************************************************************************)
(* Collector output.                                                       *)
(***************************************************************************)
\* nmap.Collector.Collect: a host that is up, with its addresses and its
\* first hostname, becomes an asset whose external_id is the first address
NmapAsset(ips, hostname) ==
    [external_id |-> ips[1], source |-> "nmap", asset_type |-> "host",
     name |-> hostname,
     fqdn |-> IF hostname # "" THEN hostname ELSE NilFQDN,
     ip_addresses |-> ips, attributes |-> NmapAttributes]

\* what a collector named source may report for one entity: nmap as its
\* code builds it; the vmware collector (a skeleton in the code) reports a
\* VM by an inventory id, with its guest name and addresses; the k8s
\* collector (a skeleton too) reports a node by its name in the cluster,
\* with the address it has at the time
Observations(source) ==
    IF source = "nmap"
        THEN {NmapAsset(ips, hostname) : ips \in IPLists, hostname \in Hostnames}
    ELSE IF source = "k8s"
        THEN [external_id : {"node-1"}, source : {source}, asset_type : {"k8s_node"},
              name : Hostnames, fqdn : {NilFQDN},
              ip_addresses : {<<"10.0.0.5">>, <<"10.0.0.6">>},
              attributes : {"{}"}]
        ELSE [external_id : ExternalIDs, source : {source}, asset_type : {"vm"},
              name : Hostnames, fqdn : {NilFQDN},
              ip_addresses : {<<"10.0.0.5">>},
              attributes : {"{}"}]

\* model.NewAsset as the collectors call it: a fresh UUID per reported asset
CollectedAsset(obs, id) ==
    [id |-> id, external_id |-> obs.external_id, source |-> obs.source,
     asset_type |-> obs.asset_type, name |-> obs.name, fqdn |-> obs.fqdn,
     ip_addresses |-> obs.ip_addresses, attributes |-> obs.attributes,
     first_seen |-> 0, last_seen |-> 0, status |-> AssetStatusActive,
     created_at |-> 0, updated_at |-> 0]

\* model.NewRelationship between two assets of the same run: relationship r
\* of m runs from the r-th asset to the next one (cyclically)
CollectedRelationship(r, n, base, source) ==
    [id |-> base + n + r,
     from_id |-> base + (((r - 1) % n) + 1),
     to_id |-> base + ((r % n) + 1),
     type |-> "RUNS_ON", source |-> source]

\* the snapshot a CollectResult carries, without the per-run UUIDs
Snapshot(result) ==
    [k \in DOMAIN result.Assets |->
        [f \in {"external_id", "source", "asset_type", "name", "fqdn",
                "ip_addresses", "attributes"} |-> result.Assets[k][f]]]

NoResult == [Assets |-> <<>>, Relationships |-> <<>>]

NoEvent == [asset_id |-> 0]

\* what is recorded about the current (or last) Reconcile call of a task
NoRun ==
    [returned |-> "none", errors |-> 0, warnings |-> 0, reconciled |-> {},
     inserted |-> 0, lost |-> {}, dropped |-> {}, nodeFailed |-> {},
     failed |-> {},
     appended |-> <<>>, published |-> <<>>, upserts |-> <<>>,
     replay |-> FALSE, clean |-> TRUE]

IdleTask ==
    [pc |-> "idle", result |-> NoResult, i |-> 0, ip |-> 0, j |-> 0,
     incoming |-> NoAsset, existing |-> NoAsset, now |-> 0,
     diff |-> NilDiff, event |-> NoEvent, run |-> NoRun, prev |-> <<>>]

(***************************************************************************)
(* Reconciler (internal/reconciler/reconciler.go).                         *)
(***************************************************************************)
\* a call may fail only while the fault budget lasts
MayFail == faults < quota.faults

\* another writer changed the assets table: runs of the other tasks are no
\* longer runs without a writer in between
Disturbed(tk) ==
    [tk EXCEPT !.run.clean = FALSE, !.prev = <<>>]

\* Reconcile line 68: return nil.  The snapshot is remembered for the next
\* call when this run saw no failed call and no other writer
Returned(tk) ==
    [tk EXCEPT !.pc = "done", !.run.returned = "nil",
               !.prev = IF tk.run.clean /\ tk.run.errors = 0 /\ tk.run.warnings = 0
                           THEN Snapshot(tk.result) ELSE <<>>]

\* Reconcile's loops: the position after reconcileAsset returned for asset i.
\* The asset loop goes on to the next asset; after the last one the
\* relationship loop starts; reconcileRelationship returns at once when
\* neoStore is nil; after the loops Reconcile returns nil
Continue(tk) ==
    LET fresh == [tk EXCEPT !.ip = 0, !.incoming = NoAsset, !.existing = NoAsset,
                            !.now = 0, !.diff = NilDiff, !.event = NoEvent]
    IN  IF tk.i < Len(tk.result.Assets)
            THEN [fresh EXCEPT !.pc = "GetByExternalID", !.i = tk.i + 1,
                               !.incoming = tk.result.Assets[tk.i + 1]]
        ELSE IF Len(tk.result.Relationships) > 0 /\ neoStore
            THEN [fresh EXCEPT !.pc = "UpsertRelationship", !.j = 1]
        ELSE Returned(fresh)

\* a Reconcile that returns the first error of reconcileAsset
AssetAborts(tk) ==
    [tk EXCEPT !.pc = "done", !.run.errors = @ + 1, !.run.returned = "error",
               !.prev = <<>>]

\* Reconcile line 46-53: reconcileAsset returned an error; it is logged and
\* the loop continues
AssetFailed(tk) ==
    Continue([tk EXCEPT !.run.errors = @ + 1])

\* a cascade that goes on to the IP lookups whatever was matched so far
LookupAllStages(tk) ==
    IF tk.ip <= Len(tk.incoming.ip_addresses)
        THEN "FindByIP"
    ELSE IF tk.existing.id = 0 /\ tk.incoming.fqdn # NilFQDN /\ tk.incoming.fqdn # ""
        THEN "FindByFQDN"
    ELSE "Now"

\* a canonical-store call made for the current asset failed
StoreCallFailed(tk) ==
    [tk EXCEPT !.run.failed = @ \cup {tk.i}]

\* reconcileAsset line 78-101: which lookup follows, given what is matched
\* so far and the next IP index to try
NextLookup(tk) ==
    IF tk.existing.id = 0 /\ tk.ip <= Len(tk.incoming.ip_addresses)
        THEN "FindByIP"
    ELSE IF tk.existing.id = 0 /\ tk.incoming.fqdn # NilFQDN /\ tk.incoming.fqdn # ""
        THEN "FindByFQDN"
    ELSE "Now"

\* publishEvent line 169-174: nothing happens without a publisher; otherwise
\* the event is built and the history append comes next
publishEvent(tk, action, asset, diff) ==
    IF ~publisher
        THEN Continue(tk)
        ELSE [tk EXCEPT !.pc = "CreateChangeEvent",
                        !.event = [asset_id |-> asset.id, action |-> action,
                                   source |-> asset.source, diff |-> Marshal(diff),
                                   timestamp |-> 0]]

\* the asset the write branch worked on: incoming when new, existing otherwise
Written(tk) ==
    IF tk.existing.id = 0 THEN tk.incoming ELSE tk.existing

\* the change action of the branch taken
ActionOf(tk) ==
    IF tk.existing.id = 0 THEN ChangeActionCreated ELSE ChangeActionUpdated

\* reconcileAsset line 117-123 and 144-150: after the canonical write the
\* graph node is upserted when there is a graph store, then the event
AfterWrite(tk) ==
    IF neoStore
        THEN [tk EXCEPT !.pc = "UpsertNode"]
        ELSE publishEvent(tk, ActionOf(tk), Written(tk),
                          IF tk.existing.id = 0 THEN NilDiff ELSE tk.diff)

\* task' with t at tk; when t wrote the assets table the other tasks see it
Step(t, tk, wrote) ==
    task' = [u \in Tasks |->
                IF u = t THEN tk
                ELSE IF wrote THEN Disturbed(task[u]) ELSE task[u]]

\* a call succeeds, or fails and uses up the fault budget
Outcome(ok) ==
    /\ ok \/ MayFail
    /\ faults' = IF ok THEN faults ELSE faults + 1

\* Reconcile is called with the CollectResult of one collector run: a run
\* of one of the collectors in sources that reports a number in sizes of
\* assets, each entity once
ReconcileFrom(t, sources, sizes) ==
    /\ t \in quota.tasks
    /\ task[t].pc \in {"idle", "done"}
    /\ \E source \in sources, n \in sizes, m \in 0..MaxRels :
        /\ sightings + n <= quota.sightings
        /\ sightings' = sightings + n
        /\ \E obs \in [1..n -> Observations(source)] :
            LET distinct == \A k \in 1..n, l \in 1..n :
                                obs[k].external_id = obs[l].external_id => k = l
                result == [Assets |-> [k \in 1..n |-> CollectedAsset(obs[k], uuid + k)],
                           Relationships |->
                               [r \in 1..m |-> CollectedRelationship(r, n, uuid, source)]]
                tk == [IdleTask EXCEPT
                          !.pc = "GetByExternalID", !.result = result, !.i = 1,
                          !.incoming = result.Assets[1],
                          !.prev = task[t].prev,
                          !.run.replay = (task[t].prev # <<>>
                                          /\ task[t].prev = Snapshot(result))]
            IN  /\ distinct
                /\ Step(t, tk, FALSE)
                /\ uuid' = uuid + n + m
    /\ UNCHANGED <<assets, change_events, bus, nodes, edges, clock, publisher,
                   neoStore, faults, apiCalls, quota, schedVars>>

\* Reconcile called after a run of any collector
Reconcile(t) ==
    ReconcileFrom(t, Sources, 1..MaxBatch)

\* Reconcile called after a run of the vmware collector that reports a full
\* batch
ReconcileInventory(t) ==
    ReconcileFrom(t, {"vmware"}, {MaxBatch})

\* reconcileAsset line 73-76
ExactLookup(t) ==
    /\ task[t].pc = "GetByExternalID"
    /\ \E ok \in BOOLEAN :
        /\ Outcome(ok)
        /\ LET tk == [task[t] EXCEPT !.run.reconciled = @ \cup {task[t].i}]
               found == [tk EXCEPT !.existing = GetByExternalID(tk.incoming.source,
                                                                tk.incoming.external_id),
                                   !.ip = 1]
           IN  Step(t, IF ok THEN [found EXCEPT !.pc = NextLookup(found)]
                             ELSE AssetFailed(StoreCallFailed(tk)), FALSE)
    /\ UNCHANGED <<assets, change_events, bus, nodes, edges, clock, uuid, publisher,
                   neoStore, sightings, apiCalls, quota, schedVars>>

\* a lookup that accepts whatever it finds
AnyMatch(matches) ==
    Cardinality(matches) >= 1

\* reconcileAsset line 86 and 98: len(matches) == 1
SingleMatch(matches) ==
    Cardinality(matches) = 1

\* reconcileAsset line 80-90: one turn of the loop over incoming.IPAddresses
IPLookup(t) ==
    /\ task[t].pc = "FindByIP"
    /\ \E ok \in BOOLEAN :
        /\ Outcome(ok)
        /\ LET tk == task[t]
               matches == FindByIP(tk.incoming.ip_addresses[tk.ip])
               hit == [tk EXCEPT !.existing = CHOOSE a \in matches : TRUE]
               miss == [tk EXCEPT !.ip = @ + 1]
               next == IF ok /\ SingleMatch(matches) THEN hit ELSE miss
               warned == IF ok THEN next
                         ELSE StoreCallFailed([next EXCEPT !.run.warnings = @ + 1])
           IN  Step(t, [warned EXCEPT !.pc = NextLookup(warned)], FALSE)
    /\ UNCHANGED <<assets, change_events, bus, nodes, edges, clock, uuid, publisher,
                   neoStore, sightings, apiCalls, quota, schedVars>>

\* reconcileAsset line 94-101
FQDNLookup(t) ==
    /\ task[t].pc = "FindByFQDN"
    /\ \E ok \in BOOLEAN :
        /\ Outcome(ok)
        /\ LET tk == task[t]
               matches == FindByFQDN(tk.incoming.fqdn)
               next == IF ok /\ SingleMatch(matches)
                          THEN [tk EXCEPT !.existing = CHOOSE a \in matches : TRUE]
                          ELSE tk
               warned == IF ok THEN next
                         ELSE StoreCallFailed([next EXCEPT !.run.warnings = @ + 1])
           IN  Step(t, [warned EXCEPT !.pc = "Now"], FALSE)
    /\ UNCHANGED <<assets, change_events, bus, nodes, edges, clock, uuid, publisher,
                   neoStore, sightings, apiCalls, quota, schedVars>>

\* reconcileAsset line 107-111: the new asset is stamped
Stamped(incoming, now) ==
    [incoming EXCEPT !.first_seen = now, !.last_seen = now,
                     !.status = AssetStatusActive,
                     !.created_at = now, !.updated_at = now]

\* reconcileAsset line 129-138: last_seen and status always, the descriptive
\* fields and updated_at when the diff is not empty
Applied(existing, incoming, diff, now) ==
    LET seen == [existing EXCEPT !.last_seen = now, !.status = AssetStatusActive]
    IN  IF DiffLen(diff) > 0
            THEN [seen EXCEPT !.name = incoming.name, !.fqdn = incoming.fqdn,
                              !.ip_addresses = incoming.ip_addresses,
                              !.attributes = incoming.attributes,
                              !.updated_at = now]
            ELSE seen

\* reconcileAsset line 103-138: time.Now() and the in-memory changes
Now(t) ==
    /\ task[t].pc = "Now"
    /\ clock' = clock + 1
    /\ LET tk == task[t]
           diff == detectChanges(tk.existing, tk.incoming)
       IN  Step(t, IF tk.existing.id = 0
                     THEN [tk EXCEPT !.pc = "Create", !.now = clock',
                                     !.incoming = Stamped(tk.incoming, clock')]
                     ELSE [tk EXCEPT !.pc = "Update", !.now = clock', !.diff = diff,
                                     !.existing = Applied(tk.existing, tk.incoming,
                                                          diff, clock')],
                FALSE)
    /\ UNCHANGED <<assets, change_events, bus, nodes, edges, uuid, publisher,
                   neoStore, faults, sightings, apiCalls, quota, schedVars>>

\* a reconcileAsset that logs a failed Create and goes on with the asset
CreateFailureLogged(tk) ==
    AfterWrite([tk EXCEPT !.run.dropped = @ \cup {tk.i}])

\* reconcileAsset line 113-115: a failed Create is returned as an error
CreateFailed(tk) ==
    AssetFailed([tk EXCEPT !.run.dropped = @ \cup {tk.i}])

\* reconcileAsset line 113-115 with Store.Create: the insert fails on a
\* transient error or on a unique violation, and the asset is dropped
CreateAsset(t) ==
    /\ task[t].pc = "Create"
    /\ LET tk == task[t]
       IN  \/ /\ ~UniqueViolation(tk.incoming)
              /\ assets' = Create(tk.incoming)
              /\ Step(t, AfterWrite([tk EXCEPT !.run.inserted = @ + 1]), TRUE)
              /\ UNCHANGED faults
           \/ /\ UniqueViolation(tk.incoming)
              /\ Step(t, CreateFailed([tk EXCEPT !.run.lost = @ \cup {tk.i}]), FALSE)
              /\ UNCHANGED <<assets, faults>>
           \/ /\ Outcome(FALSE)
              /\ Step(t, CreateFailed(StoreCallFailed(tk)), FALSE)
              /\ UNCHANGED assets
    /\ UNCHANGED <<change_events, bus, nodes, edges, clock, uuid, publisher,
                   neoStore, sightings, apiCalls, quota, schedVars>>

\* reconcileAsset line 140-156 with Store.Update, which stamps updated_at
\* itself; after an update without a diff reconcileAsset returns
UpdateAsset(t) ==
    /\ task[t].pc = "Update"
    /\ clock' = clock + 1
    /\ LET tk == task[t]
       IN  \/ /\ assets' = Update(tk.existing, clock')
              /\ Step(t, IF DiffLen(tk.diff) > 0
                            THEN AfterWrite([tk EXCEPT !.existing.updated_at = clock'])
                            ELSE Continue(tk),
                      TRUE)
              /\ UNCHANGED faults
           \/ /\ Outcome(FALSE)
              /\ Step(t, AssetFailed(StoreCallFailed(tk)), FALSE)
              /\ UNCHANGED assets
    /\ UNCHANGED <<change_events, bus, nodes, edges, uuid, publisher,
                   neoStore, sightings, apiCalls, quota, schedVars>>

\* reconcileAsset line 117-121 and 144-148: a graph failure is only logged
GraphNode(t) ==
    /\ task[t].pc = "UpsertNode"
    /\ \E ok \in BOOLEAN :
        /\ Outcome(ok)
        /\ LET tk == task[t]
               warned == IF ok THEN tk
                         ELSE [tk EXCEPT !.run.warnings = @ + 1,
                                         !.run.nodeFailed = @ \cup
                                             {[id |-> Written(tk).id,
                                               action |-> ActionOf(tk)]}]
           IN  /\ nodes' = IF ok THEN UpsertNode(Written(tk)) ELSE nodes
               /\ Step(t, publishEvent(warned, ActionOf(tk), Written(tk),
                                       IF tk.existing.id = 0 THEN NilDiff ELSE tk.diff),
                       FALSE)
    /\ UNCHANGED <<assets, change_events, bus, edges, clock, uuid, publisher,
                   neoStore, sightings, apiCalls, quota, schedVars>>

\* a publishEvent that gives up on the event when the history append fails
AppendFailureAborts(tk, ok, event) ==
    IF ok THEN [tk EXCEPT !.pc = "Publish", !.event = event,
                          !.run.appended = Append(@, event)]
          ELSE AssetFailed(tk)

\* publishEvent line 177-182: a failed history append is logged and the
\* publish comes next all the same
AfterAppend(tk, ok, event) ==
    IF ok THEN [tk EXCEPT !.pc = "Publish", !.event = event,
                          !.run.appended = Append(@, event)]
          ELSE [tk EXCEPT !.pc = "Publish", !.event = event,
                          !.run.warnings = @ + 1]

\* publishEvent line 174-179: NewChangeEvent stamps the event, the history
\* append may fail and is then only logged; it fails when the asset row is
\* gone (change_events.asset_id references assets)
HistoryAppend(t) ==
    /\ task[t].pc = "CreateChangeEvent"
    /\ clock' = clock + 1
    /\ \E ok \in BOOLEAN :
        /\ IF GetByID(task[t].event.asset_id).id # 0
              THEN Outcome(ok)
              ELSE ~ok /\ faults' = faults
        /\ LET tk == task[t]
               event == [tk.event EXCEPT !.timestamp = clock']
           IN  /\ change_events' = IF ok THEN Append(change_events, event)
                                         ELSE change_events
               /\ Step(t, AfterAppend(tk, ok, event), FALSE)
    /\ UNCHANGED <<assets, bus, nodes, edges, uuid, publisher, neoStore,
                   sightings, apiCalls, quota, schedVars>>

\* publishEvent line 182-186: the subject is "assets." + action; a publish
\* failure is only logged
Publish(t) ==
    /\ task[t].pc = "Publish"
    /\ \E ok \in BOOLEAN :
        /\ Outcome(ok)
        /\ LET tk == task[t]
               msg == [subject |-> "assets." \o tk.event.action, data |-> tk.event]
           IN  /\ bus' = IF ok THEN Append(bus, msg) ELSE bus
               /\ Step(t, Continue(IF ok THEN [tk EXCEPT !.run.published = Append(@, msg)]
                                         ELSE [tk EXCEPT !.run.warnings = @ + 1]),
                       FALSE)
    /\ UNCHANGED <<assets, change_events, nodes, edges, clock, uuid, publisher,
                   neoStore, sightings, apiCalls, quota, schedVars>>

\* Reconcile line 56-66 with reconcileRelationship: one turn of the loop
\* over result.Relationships; a failed upsert is logged and the loop goes on
Relationship(t) ==
    /\ task[t].pc = "UpsertRelationship"
    /\ \E ok \in BOOLEAN :
        /\ Outcome(ok)
        /\ LET tk == task[t]
               rel == tk.result.Relationships[tk.j]
               tried == [tk EXCEPT !.run.upserts = Append(@, rel),
                                   !.run.errors = IF ok THEN @ ELSE @ + 1]
           IN  /\ edges' = IF ok THEN UpsertRelationship(rel) ELSE edges
               /\ Step(t, IF tk.j < Len(tk.result.Relationships)
                             THEN [tried EXCEPT !.j = @ + 1]
                             ELSE Returned(tried),
                       FALSE)
    /\ UNCHANGED <<assets, change_events, bus, nodes, clock, uuid, publisher,
                   neoStore, sightings, apiCalls, quota, schedVars>>

(***************************************************************************)
(* HTTP write handlers (internal/api).  Each request is one step.          *)
(***************************************************************************)
\* every task's run has seen another writer
AllDisturbed ==
    task' = [u \in Tasks |-> Disturbed(task[u])]

\* the request bodies handleCreateAsset accepts: external_id, source,
\* asset_type and name are required; fqdn and attributes are left out
CreateInputs ==
    [external_id : ExternalIDs, source : {"vmware"}, asset_type : {"vm"},
     name : Hostnames \ {""}, ip_addresses : {<<"10.0.0.5">>}]

\* handleCreateAsset: model.NewAsset, Store.Create, then the graph node
handleCreateAsset ==
    /\ apiCalls < quota.api
    /\ apiCalls' = apiCalls + 1
    /\ clock' = clock + 1
    /\ uuid' = uuid + 1
    /\ \E input \in CreateInputs, nodeOk \in BOOLEAN :
        LET asset == [id |-> uuid', external_id |-> input.external_id,
                      source |-> input.source,
                      asset_type |-> input.asset_type,
                      name |-> input.name, fqdn |-> NilFQDN,
                      ip_addresses |-> input.ip_addresses, attributes |-> "{}",
                      first_seen |-> clock', last_seen |-> clock',
                      status |-> AssetStatusActive,
                      created_at |-> clock', updated_at |-> clock']
        IN  /\ ~UniqueViolation(asset)
            /\ nodeOk \/ neoStore
            /\ Outcome(nodeOk)
            /\ assets' = Create(asset)
            /\ nodes' = IF neoStore /\ nodeOk THEN UpsertNode(asset) ELSE nodes
    /\ AllDisturbed
    /\ UNCHANGED <<change_events, bus, edges, publisher, neoStore, sightings, quota, schedVars>>

\* handleUpdateAsset: GetByID, the fields present in the body replace the
\* stored ones, Store.Update.  A body carries a status or a name here
handleUpdateAsset ==
    /\ apiCalls < quota.api
    /\ apiCalls' = apiCalls + 1
    /\ clock' = clock + 1
    /\ \E existing \in assets :
        \/ \E status \in AssetStatuses :
              assets' = Update([existing EXCEPT !.status = status], clock')
        \/ \E name \in Hostnames \ {""} :
              assets' = Update([existing EXCEPT !.name = name], clock')
    /\ AllDisturbed
    /\ UNCHANGED <<change_events, bus, nodes, edges, uuid, publisher, neoStore,
                   faults, sightings, quota, schedVars>>

\* handleDeleteAsset: Store.Delete (the history rows cascade), then DeleteNode
handleDeleteAsset ==
    /\ apiCalls < quota.api
    /\ apiCalls' = apiCalls + 1
    /\ \E existing \in assets :
        /\ assets' = Delete(existing.id)
        /\ change_events' = SelectSeq(change_events,
                                      LAMBDA e : e.asset_id # existing.id)
        /\ nodes' = IF neoStore THEN DeleteNode(existing.id).nodes ELSE nodes
        /\ edges' = IF neoStore THEN DeleteNode(existing.id).edges ELSE edges
    /\ AllDisturbed
    /\ UNCHANGED <<bus, clock, uuid, publisher, neoStore, faults, sightings, quota, schedVars>>

(***************************************************************************)
(* Collector registry and scheduler (internal/collector registry,          *)
(* internal/scheduler/scheduler.go).  Collect and Reconcile are each one   *)
(* step of the goroutine that calls them.                                  *)
(***************************************************************************)
MaxStarts == 2      \* calls of Start in one behaviour
MaxInflight == 2    \* bodies one worker may have in progress before a guard stops it

\* the intervals a configuration may give, in seconds, and the interval used
\* when the configured one is not positive (5 * time.Minute)
Intervals == {-1, 0, 60}
DefaultInterval == 300

\* the collectors registered, by Collector.Name()
Collectors == {"nmap", "vmware"}

\* the context a caller brings is 0; the n-th Start derives context n from it
CallerContext == 0
Contexts == 1..MaxStarts

\* one runCollectorLoop goroutine per Start call and enabled collector
Loops == Contexts \X Collectors

\* Register line 53: the status of a collector as it is registered, all zero
\* values
CollectorStatus(name) ==
    [Name |-> name, LastRun |-> 0, LastSuccess |-> 0, LastError |-> "",
     Running |-> FALSE, AssetCount |-> 0]

\* NewRegistry: three empty maps.  The statuses map holds pointers; heap holds
\* the CollectorStatus objects they point to, in the order they were made
NewRegistry ==
    [collectors |-> <<>>, configs |-> <<>>, statuses |-> <<>>, heap |-> <<>>]

\* Register: the three maps are written under c.Name(), the status is a new
\* object
Register(reg, c, cfg) ==
    [collectors |-> (c.Name :> c) @@ reg.collectors,
     configs |-> (c.Name :> cfg) @@ reg.configs,
     statuses |-> (c.Name :> Len(reg.heap) + 1) @@ reg.statuses,
     heap |-> Append(reg.heap, CollectorStatus(c.Name))]

\* a Get that finds a collector for every name
GetAlways(reg, name) ==
    IF name \in DOMAIN reg.collectors
        THEN [collector |-> reg.collectors[name], config |-> reg.configs[name],
              err |-> "nil"]
        ELSE [collector |-> [Name |-> name], config |-> [Name |-> name],
              err |-> "nil"]

\* Get: the collector and its configuration, or an error
Get(reg, name) ==
    IF name \in DOMAIN reg.collectors
        THEN [collector |-> reg.collectors[name], config |-> reg.configs[name],
              err |-> "nil"]
        ELSE [collector |-> [Name |-> ""], config |-> [Name |-> ""],
              err |-> "collector \"" \o name \o "\" not found"]

\* Names: the keys of the collectors map
Names(reg) == DOMAIN reg.collectors

\* List: a new slice of the pointers the statuses map holds
List(reg) == {reg.statuses[name] : name \in DOMAIN reg.statuses}

\* the status the registry holds for a name
StatusOf(reg, name) == reg.heap[reg.statuses[name]]

\* cmd/collector main line 278-294: the collector of the entry's type is
\* registered with the entry's configuration; here every entry is named
\* after its type
Entry(name, enabled, interval) ==
    [Name |-> name, Type |-> name, Enabled |-> name \in enabled,
     Interval |-> interval]

\* the registry after the entries for nmap and vmware are registered
Registered(enabled, interval) ==
    Register(Register(NewRegistry,
                      [Name |-> "nmap", instance |-> 1],
                      Entry("nmap", enabled, interval)),
             [Name |-> "vmware", instance |-> 1],
             Entry("vmware", enabled, interval))

\* scheduler.New: no cancel function, an empty WaitGroup; started counts the
\* contexts derived, cancelled holds those cancelled, stop is the position of
\* the Stop call and seen the number of Start calls that preceded it
NewScheduler ==
    [cancel |-> 0, wg |-> 0, started |-> 0, cancelled |-> {}, stop |-> "idle",
     seen |-> 0]

\* a goroutine that was not started.  ticker is the one-element buffer of the
\* ticker's channel and says when the tick it holds fired; on is the tick the
\* last body was begun on; collecting and reconciling count the bodies inside
\* Collect and inside Reconcile
NoWorker ==
    [pc |-> "none", ticker |-> "empty", on |-> "none", collecting |-> 0,
     reconciling |-> 0, failed |-> FALSE, cfg |-> [Name |-> ""], interval |-> 0]

\* no RunCollectorNow call yet: no goroutine, no name asked for, no error
NoAdhoc ==
    [pc |-> "none", name |-> "", ctx |-> CallerContext, asked |-> "",
     err |-> "nil"]

\* no call was made yet
NoCall == [op |-> "none"]

\* ctx.Done() is closed
Cancelled(ctx) == ctx \in scheduler.cancelled

\* Start: derive a context, keep its cancel function, and start one
\* runCollectorLoop per enabled collector
Start ==
    /\ scheduler.started < quota.starts
    /\ LET ctx == scheduler.started + 1
           enabled == {c \in Names(registry) : Get(registry, c).config.Enabled}
       IN  /\ scheduler' = [scheduler EXCEPT !.started = ctx, !.cancel = ctx,
                                             !.wg = @ + Cardinality(enabled)]
           /\ workers' = [w \in Loops |->
                             IF w[1] = ctx /\ w[2] \in enabled
                                 THEN [NoWorker EXCEPT
                                          !.pc = "start",
                                          !.cfg = Get(registry, w[2]).config]
                                 ELSE workers[w]]
    /\ UNCHANGED <<adhoc, registry, client, notifier, recVars>>

\* a loop that starts the body in a goroutine of its own and goes on
SpawnBody(wk, tick) ==
    [wk EXCEPT !.pc = "select", !.collecting = @ + 1, !.on = tick]

\* runCollectorLoop line 77 and 84: s.runCollector is called and the loop
\* waits for it to return
CallBody(wk, tick) ==
    [wk EXCEPT !.pc = "busy", !.collecting = @ + 1, !.on = tick]

\* the body returned: the loop that called it is back at its select
Resume(pc) == IF pc = "busy" THEN "select" ELSE pc

\* a ticker made with the configured interval whatever it is
ConfiguredInterval(cfg) == cfg.Interval

\* runCollectorLoop line 68-73: the interval of the ticker
TickerInterval(cfg) ==
    IF cfg.Interval <= 0 THEN DefaultInterval ELSE cfg.Interval

\* runCollectorLoop line 68-77: the ticker is made and the collector is run
\* at once
FirstRun(w) ==
    /\ workers[w].pc = "start"
    /\ workers' = [workers EXCEPT
                      ![w] = CallBody([@ EXCEPT !.interval = TickerInterval(workers[w].cfg)],
                                      "start")]
    /\ UNCHANGED <<scheduler, adhoc, registry, client, notifier, recVars>>

\* time.NewTicker line 73: the ticker sends on a channel of capacity one and
\* never blocks; a tick that finds the buffer full is dropped
TickerSend(wk) ==
    IF wk.ticker # "empty" THEN wk
    ELSE [wk EXCEPT !.ticker = IF wk.collecting + wk.reconciling > 0
                                   THEN "during" ELSE "after"]

\* the interval of a worker's ticker elapses
Tick(w) ==
    /\ workers[w].pc \in {"select", "busy"}
    /\ workers' = [workers EXCEPT ![w] = TickerSend(@)]
    /\ UNCHANGED <<scheduler, adhoc, registry, client, notifier, recVars>>

\* runCollectorLoop line 83-84: the select receives the buffered tick and
\* runs the collector
TickArm(w) ==
    /\ workers[w].pc = "select"
    /\ workers[w].ticker # "empty"
    /\ workers[w].collecting + workers[w].reconciling < MaxInflight
    /\ workers' = [workers EXCEPT
                      ![w] = CallBody([@ EXCEPT !.ticker = "empty"], @.ticker)]
    /\ UNCHANGED <<scheduler, adhoc, registry, client, notifier, recVars>>

\* runCollectorLoop line 81-82 with the deferred calls of line 66 and 74: the
\* select finds the context cancelled, the ticker is stopped and the
\* WaitGroup is told
CtxArm(w) ==
    /\ workers[w].pc = "select"
    /\ Cancelled(w[1])
    /\ workers' = [workers EXCEPT ![w].pc = "exited", ![w].ticker = "empty"]
    /\ scheduler' = [scheduler EXCEPT !.wg = @ - 1]
    /\ UNCHANGED <<adhoc, registry, client, notifier, recVars>>

\* a runCollector whose failed Collect ends the goroutine that called it
CollectErrorExits(wk) ==
    [wk EXCEPT !.collecting = @ - 1, !.failed = TRUE, !.pc = "exited"]

\* runCollector line 92-99: Collect returned an error; it is logged and
\* runCollector returns
CollectFailed(wk) ==
    [wk EXCEPT !.collecting = @ - 1, !.failed = TRUE, !.pc = Resume(@)]

\* runCollector line 92-105: Collect returns, with a result that is handed
\* to Reconcile or with an error
CollectReturns(w) ==
    /\ workers[w].collecting > 0
    /\ \/ workers' = [workers EXCEPT ![w].collecting = @ - 1,
                                       ![w].reconciling = @ + 1,
                                       ![w].failed = FALSE]
       \/ workers' = [workers EXCEPT ![w] = CollectFailed(@)]
    /\ UNCHANGED <<scheduler, adhoc, registry, client, notifier, recVars>>

\* runCollector line 107-113: Reconcile returns (always nil, reconciler.go
\* line 68) and runCollector returns
ReconcileReturns(w) ==
    /\ workers[w].reconciling > 0
    /\ workers' = [workers EXCEPT ![w].reconciling = @ - 1, ![w].pc = Resume(@)]
    /\ UNCHANGED <<scheduler, adhoc, registry, client, notifier, recVars>>

\* the names RunCollectorNow is asked for: the registered ones and one that
\* has a collector type but no configuration entry
RunNames == Collectors \cup {"zabbix"}

\* RunCollectorNow: the collector is looked up by name; an error of the
\* lookup is returned, else runCollector is started in a goroutine with the
\* context of the caller and nil is returned; the WaitGroup is not told.
\* One such goroutine at a time
RunCollectorNow ==
    /\ adhoc.pc \in {"none", "done"}
    /\ \E name \in RunNames :
          LET got == Get(registry, name)
          IN  adhoc' = IF got.err # "nil"
                           THEN [adhoc EXCEPT !.asked = name, !.err = got.err]
                           ELSE [pc |-> "collect", name |-> got.collector.Name,
                                 ctx |-> CallerContext, asked |-> name,
                                 err |-> "nil"]
    /\ UNCHANGED <<scheduler, workers, registry, client, notifier, recVars>>

\* runCollector in the goroutine of RunCollectorNow: Collect returns
AdhocCollectReturns ==
    /\ adhoc.pc = "collect"
    /\ \E ok \in BOOLEAN :
          adhoc' = [adhoc EXCEPT !.pc = IF ok THEN "reconcile" ELSE "done"]
    /\ UNCHANGED <<scheduler, workers, registry, client, notifier, recVars>>

\* runCollector in the goroutine of RunCollectorNow: Reconcile returns
AdhocReconcileReturns ==
    /\ adhoc.pc = "reconcile"
    /\ adhoc' = [adhoc EXCEPT !.pc = "done"]
    /\ UNCHANGED <<scheduler, workers, registry, client, notifier, recVars>>

\* Stop line 58-60: the cancel function kept by the last Start is called
StopCall ==
    /\ scheduler.stop # "waiting"
    /\ scheduler' = [scheduler EXCEPT
                        !.stop = "waiting",
                        !.seen = scheduler.started,
                        !.cancelled = IF scheduler.cancel # 0
                                          THEN @ \cup {scheduler.cancel} ELSE @]
    /\ UNCHANGED <<workers, adhoc, registry, client, notifier, recVars>>

\* a Stop that does not wait
WaitSkipped == TRUE

\* Stop line 61: s.wg.Wait() returns when the counter is zero
WaitDone == scheduler.wg = 0

\* Stop returns
StopReturn ==
    /\ scheduler.stop = "waiting"
    /\ WaitDone
    /\ scheduler' = [scheduler EXCEPT !.stop = "returned"]
    /\ UNCHANGED <<workers, adhoc, registry, client, notifier, recVars>>

(***************************************************************************)
(* The system.                                                             *)
(***************************************************************************)
\* what one behaviour explores: the longest sequence of runs by one task,
\* or a shorter one with a second task, with a failing call, or with an
\* HTTP write request in between
Budgets ==
    {[sightings |-> MaxSightings, faults |-> 0, api |-> 0,
      tasks |-> {"worker"}, starts |-> 0],
     [sightings |-> MaxSightings - 1, faults |-> 0, api |-> 0,
      tasks |-> Tasks, starts |-> 0],
     [sightings |-> MaxSightings - 1, faults |-> MaxFaults, api |-> 0,
      tasks |-> {"worker"}, starts |-> 0],
     [sightings |-> MaxSightings - 1, faults |-> 0, api |-> MaxApiCalls,
      tasks |-> {"worker"}, starts |-> 0]}

Init ==
    /\ assets = {}
    /\ change_events = <<>>
    /\ bus = <<>>
    /\ nodes = {}
    /\ edges = {}
    /\ clock = 0
    /\ uuid = 0
    /\ publisher \in BOOLEAN
    /\ neoStore \in BOOLEAN
    /\ task = [t \in Tasks |-> IdleTask]
    /\ faults = 0
    /\ sightings = 0
    /\ apiCalls = 0
    /\ quota \in Budgets
    /\ scheduler = NewScheduler
    /\ workers = [w \in Loops |-> NoWorker]
    /\ adhoc = NoAdhoc
    /\ registry = Registered(Collectors, 0)
    /\ client = NoCall
    /\ notifier = NewNotifier("")

Next ==
    \/ \E t \in Tasks : Reconcile(t)
    \/ \E t \in Tasks : ExactLookup(t)
    \/ \E t \in Tasks : IPLookup(t)
    \/ \E t \in Tasks : FQDNLookup(t)
    \/ \E t \in Tasks : Now(t)
    \/ \E t \in Tasks : CreateAsset(t)
    \/ \E t \in Tasks : UpdateAsset(t)
    \/ \E t \in Tasks : GraphNode(t)
    \/ \E t \in Tasks : HistoryAppend(t)
    \/ \E t \in Tasks : Publish(t)
    \/ \E t \in Tasks : Relationship(t)
    \/ handleCreateAsset
    \/ handleUpdateAsset
    \/ handleDeleteAsset

Spec == Init /\ [][Next]_vars

(***************************************************************************)
(* Successive runs of one collector's worker: full inventory batches, one  *)
(* task, no failing call and no HTTP request.                              *)
(***************************************************************************)
InitReplay ==
    /\ assets = {}
    /\ change_events = <<>>
    /\ bus = <<>>
    /\ nodes = {}
    /\ edges = {}
    /\ clock = 0
    /\ uuid = 0
    /\ publisher \in BOOLEAN
    /\ neoStore \in BOOLEAN
    /\ task = [t \in Tasks |-> IdleTask]
    /\ faults = 0
    /\ sightings = 0
    /\ apiCalls = 0
    /\ quota = [sightings |-> 2 * MaxBatch, faults |-> 0, api |-> 0,
                tasks |-> {"worker"}, starts |-> 0]
    /\ scheduler = NewScheduler
    /\ workers = [w \in Loops |-> NoWorker]
    /\ adhoc = NoAdhoc
    /\ registry = Registered(Collectors, 0)
    /\ client = NoCall
    /\ notifier = NewNotifier("")

NextReplay ==
    \/ ReconcileInventory("worker")
    \/ ExactLookup("worker")
    \/ IPLookup("worker")
    \/ Now("worker")
    \/ CreateAsset("worker")
    \/ UpdateAsset("worker")
    \/ GraphNode("worker")
    \/ HistoryAppend("worker")
    \/ Publish("worker")
    \/ Relationship("worker")

SpecReplay == InitReplay /\ [][NextReplay]_vars

(***************************************************************************)
(* Two goroutines that reconcile sightings of one k8s node: a collector's  *)
(* loop and a run_now task, no graph store, no failing call and no HTTP    *)
(* request.                                                                *)
(***************************************************************************)
\* Reconcile called after a run of the k8s collector that reports the node
ReconcileNode(t) ==
    ReconcileFrom(t, {"k8s"}, {1})

InitConcurrent ==
    /\ assets = {}
    /\ change_events = <<>>
    /\ bus = <<>>
    /\ nodes = {}
    /\ edges = {}
    /\ clock = 0
    /\ uuid = 0
    /\ publisher \in BOOLEAN
    /\ neoStore = FALSE
    /\ task = [t \in Tasks |-> IdleTask]
    /\ faults = 0
    /\ sightings = 0
    /\ apiCalls = 0
    /\ quota = [sightings |-> MaxSightings, faults |-> 0, api |-> 0,
                tasks |-> Tasks, starts |-> 0]
    /\ scheduler = NewScheduler
    /\ workers = [w \in Loops |-> NoWorker]
    /\ adhoc = NoAdhoc
    /\ registry = Registered(Collectors, 0)
    /\ client = NoCall
    /\ notifier = NewNotifier("")

NextConcurrent ==
    \/ \E t \in Tasks : ReconcileNode(t)
    \/ \E t \in Tasks : ExactLookup(t)
    \/ \E t \in Tasks : IPLookup(t)
    \/ \E t \in Tasks : Now(t)
    \/ \E t \in Tasks : CreateAsset(t)
    \/ \E t \in Tasks : UpdateAsset(t)
    \/ \E t \in Tasks : HistoryAppend(t)
    \/ \E t \in Tasks : Publish(t)

SpecConcurrent == InitConcurrent /\ [][NextConcurrent]_vars

\* what one behaviour of the collector worker process explores: every
\* collector enabled, or one collector and one more call of Start
Plans ==
    {[enabled |-> Collectors, starts |-> MaxStarts - 1],
     [enabled |-> {"nmap"}, starts |-> MaxStarts]}

\* the collector worker process (cmd/collector main): a registry with the
\* configured collectors, a scheduler, and callers of Start, Stop and
\* RunCollectorNow; the stores stay as they are
InitSched ==
    /\ assets = {}
    /\ change_events = <<>>
    /\ bus = <<>>
    /\ nodes = {}
    /\ edges = {}
    /\ clock = 0
    /\ uuid = 0
    /\ publisher = FALSE
    /\ neoStore = TRUE
    /\ task = [t \in Tasks |-> IdleTask]
    /\ faults = 0
    /\ sightings = 0
    /\ apiCalls = 0
    /\ scheduler = NewScheduler
    /\ workers = [w \in Loops |-> NoWorker]
    /\ adhoc = NoAdhoc
    /\ client = NoCall
    /\ notifier = NewNotifier("")
    /\ \E plan \in Plans, interval \in Intervals :
          /\ registry = Registered(plan.enabled, interval)
          /\ quota = [sightings |-> 0, faults |-> 0, api |-> 0, tasks |-> {},
                      starts |-> plan.starts]

NextSched ==
    \/ Start
    \/ \E w \in Loops : FirstRun(w)
    \/ \E w \in Loops : Tick(w)
    \/ \E w \in Loops : TickArm(w)
    \/ \E w \in Loops : CtxArm(w)
    \/ \E w \in Loops : CollectReturns(w)
    \/ \E w \in Loops : ReconcileReturns(w)
    \/ RunCollectorNow
    \/ AdhocCollectReturns
    \/ AdhocReconcileReturns
    \/ StopCall
    \/ StopReturn

SpecSched == InitSched /\ [][NextSched]_vars

\* the same with the scheduling of the Go runtime: a goroutine that can run
\* does run and a ticker fires; every Collect and every Reconcile returns, so
\* Collect returns once its context is cancelled; a select with several
\* ready cases picks among them at random, so a loop whose context is
\* cancelled does not pick the ticker for ever
Fairness ==
    /\ \A w \in Loops :
          /\ WF_vars(FirstRun(w))
          /\ WF_vars(Tick(w))
          /\ WF_vars(TickArm(w))
          /\ WF_vars(CollectReturns(w))
          /\ WF_vars(ReconcileReturns(w))
          /\ SF_vars(CtxArm(w))
    /\ WF_vars(StopReturn)

\* the liveness of the shutdown does not depend on the interval
InitSchedFair ==
    /\ InitSched
    /\ \A name \in Names(registry) : Get(registry, name).config.Interval = 0

SpecSchedFair == InitSchedFair /\ [][NextSched]_vars /\ Fairness

(***************************************************************************)
(* The collector registry on its own (internal/collector registry): a      *)
(* caller registers collectors, lists the statuses and writes to what it   *)
(* was given.                                                              *)
(***************************************************************************)
MaxRegisters == 3   \* calls of Register in one behaviour

\* nothing is stored and no reconciliation runs
QuietStores ==
    /\ assets = {}
    /\ change_events = <<>>
    /\ bus = <<>>
    /\ nodes = {}
    /\ edges = {}
    /\ clock = 0
    /\ uuid = 0
    /\ publisher = FALSE
    /\ neoStore = TRUE
    /\ task = [t \in Tasks |-> IdleTask]
    /\ faults = 0
    /\ sightings = 0
    /\ apiCalls = 0
    /\ quota = [sightings |-> 0, faults |-> 0, api |-> 0, tasks |-> {},
                starts |-> 0]

\* no scheduler was started
QuietScheduler ==
    /\ scheduler = NewScheduler
    /\ workers = [w \in Loops |-> NoWorker]
    /\ adhoc = NoAdhoc

\* the collectors a caller may register: two of them answer to the same
\* Name()
CollectorInstances ==
    {[Name |-> "nmap", instance |-> 1], [Name |-> "nmap", instance |-> 2],
     [Name |-> "vmware", instance |-> 1]}

\* the names a configuration may carry: the name of a type, or a name of the
\* operator's choosing
ConfigNames == {"nmap", "dc1"}

\* Register is called with a collector and a configuration for its type
RegisterCall ==
    /\ Len(registry.heap) < MaxRegisters
    /\ \E c \in CollectorInstances, name \in ConfigNames, enabled \in BOOLEAN :
          LET cfg == [Name |-> name, Type |-> c.Name, Enabled |-> enabled,
                      Interval |-> 0]
          IN  /\ registry' = Register(registry, c, cfg)
              /\ client' = [op |-> "Register", collector |-> c, config |-> cfg]
    /\ UNCHANGED <<scheduler, workers, adhoc, notifier, recVars>>

\* List is called; the caller keeps the slice
ListCall ==
    /\ client' = [op |-> "List", result |-> List(registry)]
    /\ UNCHANGED <<scheduler, workers, adhoc, registry, notifier, recVars>>

\* the caller writes the Running field of a status it was given by List: the
\* slice holds pointers, so the object written is the one pointed to
StatusWrite ==
    /\ client.op \in {"List", "write"}
    /\ \E p \in client.result :
          /\ registry' = [registry EXCEPT !.heap[p].Running = ~@]
          /\ client' = [op |-> "write", result |-> client.result, target |-> p]
    /\ UNCHANGED <<scheduler, workers, adhoc, notifier, recVars>>

InitRegistry ==
    /\ QuietStores
    /\ QuietScheduler
    /\ registry = NewRegistry
    /\ client = NoCall
    /\ notifier = NewNotifier("")

NextRegistry ==
    \/ RegisterCall
    \/ ListCall
    \/ StatusWrite

SpecRegistry == InitRegistry /\ [][NextRegistry]_vars

(***************************************************************************)
(* The graph store on its own (internal/store/neo4j) with the handlers     *)
(* that read it (internal/api handlers).                                   *)
(***************************************************************************)
MaxEdges == 2       \* edges in the graph of the write scenarios
MaxPathEdges == 3   \* edges in the graph of the traversal scenarios

RelationshipTypes == {"RUNS_ON", "DEPENDS_ON"}

\* an asset as far as UpsertNode reads it
GraphAsset(id) ==
    [id |-> id, name |-> "web01", asset_type |-> "host", source |-> "nmap",
     status |-> AssetStatusActive]

\* UpsertNode is called for one of the ids and returns nil to the caller
GraphUpsertNode(ids) ==
    /\ \E id \in ids : nodes' = UpsertNode(GraphAsset(id))
    /\ client' = [op |-> "UpsertNode", err |-> "nil"]
    /\ UNCHANGED <<assets, change_events, bus, edges, clock, uuid, publisher,
                   neoStore, task, faults, sightings, apiCalls, quota,
                   scheduler, workers, adhoc, registry,
                   notifier>>

\* DeleteNode is called for one of the ids
GraphDeleteNode(ids) ==
    /\ \E id \in ids :
          /\ nodes' = DeleteNode(id).nodes
          /\ edges' = DeleteNode(id).edges
    /\ client' = [op |-> "DeleteNode", err |-> "nil"]
    /\ UNCHANGED <<assets, change_events, bus, clock, uuid, publisher,
                   neoStore, task, faults, sightings, apiCalls, quota,
                   scheduler, workers, adhoc, registry,
                   notifier>>

\* UpsertRelationship is called with one of the relationships
GraphUpsertRelationship(rels, most) ==
    /\ \E rel \in rels :
          /\ edges' = UpsertRelationship(rel)
          /\ Cardinality(edges') <= most
    /\ client' = [op |-> "UpsertRelationship", err |-> "nil"]
    /\ UNCHANGED <<assets, change_events, bus, nodes, clock, uuid, publisher,
                   neoStore, task, faults, sightings, apiCalls, quota,
                   scheduler, workers, adhoc, registry,
                   notifier>>

\* GetRelationships: MATCH (a:Asset {id})-[r]-(b:Asset) RETURN r.id,
\* a.id AS from_id, b.id AS to_id, type(r), r.source, read by
\* recordToRelationship: one row per edge at a, whatever its direction
GetRelationships(assetID) ==
    {[id |-> e.id, from_id |-> assetID,
      to_id |-> IF e.from_id = assetID THEN e.to_id ELSE e.from_id,
      type |-> e.type, source |-> e.source] :
        e \in {x \in edges : x.from_id = assetID \/ x.to_id = assetID}}

\* handleGetAssetRelationships: 503 without a graph store, else the
\* relationships of the asset
handleGetAssetRelationships(ids) ==
    /\ \E id \in ids :
          client' = IF ~neoStore
                        THEN [op |-> "relationships", id |-> id, status |-> 503]
                        ELSE [op |-> "relationships", id |-> id, status |-> 200,
                              data |-> GetRelationships(id)]
    /\ UNCHANGED <<scheduler, workers, adhoc, registry, notifier, recVars>>

GraphIds == 1..3
RelationshipIds == 1..2
GraphRelationships ==
    [id : RelationshipIds, from_id : GraphIds, to_id : GraphIds,
     type : RelationshipTypes, source : {"nmap"}]

InitGraph ==
    /\ QuietStores
    /\ QuietScheduler
    /\ registry = NewRegistry
    /\ client = NoCall
    /\ notifier = NewNotifier("")

NextGraph ==
    \/ GraphUpsertNode(GraphIds)
    \/ GraphDeleteNode(GraphIds)
    \/ GraphUpsertRelationship(GraphRelationships, MaxEdges)
    \/ handleGetAssetRelationships(GraphIds)

SpecGraph == InitGraph /\ [][NextGraph]_vars

(***************************************************************************)
(* Graph traversal: traverseGraph and the two handlers that call it.       *)
(***************************************************************************)
DefaultDepth == 3

\* the end of an edge a path of the direction leaves, and the end it reaches
Leaves(e, direction) == IF direction = "outgoing" THEN e.from_id ELSE e.to_id
Reaches(e, direction) == IF direction = "outgoing" THEN e.to_id ELSE e.from_id

\* the paths one edge longer: a variable-length pattern never uses an edge
\* twice in one path
Extend(paths, direction) ==
    {[used |-> x[1].used \cup {x[2]}, at |-> Reaches(x[2], direction),
      seen |-> x[1].seen \cup {Reaches(x[2], direction)}] :
        x \in {y \in paths \X edges :
                  /\ y[2] \notin y[1].used
                  /\ Leaves(y[2], direction) = y[1].at}}

\* the paths of 1 to k more edges that continue the given ones
RECURSIVE Trails(_, _, _)
Trails(paths, k, direction) ==
    IF k = 0 \/ paths = {} THEN {}
    ELSE LET longer == Extend(paths, direction)
         IN  longer \cup Trails(longer, k - 1, direction)

\* MATCH path = (a:Asset {id})-[r*1..depth]->(b:Asset), or the same pattern
\* ending at a: the paths of 1 to depth edges at the node with this id
Paths(assetID, depth, direction) ==
    IF \E n \in nodes : n.id = assetID
        THEN Trails({[used |-> {}, at |-> assetID, seen |-> {assetID}]},
                    depth, direction)
        ELSE {}

\* nodeToAsset: id, name, asset_type, source and status of the node
nodeToAsset(node) ==
    [id |-> node.id, name |-> node.name, asset_type |-> node.asset_type,
     source |-> node.source, status |-> node.status]

\* neoRelToRelationship: type, id and source; FromID and ToID keep their
\* zero value
neoRelToRelationship(rel) ==
    [id |-> rel.id, from_id |-> 0, to_id |-> 0, type |-> rel.type,
     source |-> rel.source]

\* traverseGraph: depth <= 0 becomes 3; the distinct nodes and the distinct
\* relationships of all matched paths, nothing when no path matched
traverseGraph(assetID, requested, direction) ==
    LET depth == IF requested <= 0 THEN DefaultDepth ELSE requested
        paths == Paths(assetID, depth, direction)
        seen  == UNION {p.seen : p \in paths}
        used  == UNION {p.used : p \in paths}
    IN  [assets        |-> {nodeToAsset(n) : n \in {x \in nodes : x.id \in seen}},
         relationships |-> {neoRelToRelationship(e) : e \in used},
         hops          |-> depth]

GetDependencyGraph(assetID, depth) == traverseGraph(assetID, depth, "outgoing")
GetImpactGraph(assetID, depth) == traverseGraph(assetID, depth, "incoming")

\* what a graph handler answers: 503 without a graph store; depth <= 0
\* becomes 3; the traversal's assets and relationships with status 200
GraphResponse(op, id, requested, direction) ==
    IF ~neoStore
        THEN [op |-> op, id |-> id, depth |-> requested, status |-> 503]
        ELSE LET depth == IF requested <= 0 THEN DefaultDepth ELSE requested
                 got   == traverseGraph(id, depth, direction)
             IN  [op |-> op, id |-> id, depth |-> requested, status |-> 200,
                  assets |-> got.assets, relationships |-> got.relationships,
                  hops |-> got.hops]

\* GET /assets/{id}/graph/dependencies?depth=
handleGetDependencyGraph(ids, depths) ==
    /\ \E id \in ids, depth \in depths :
          client' = GraphResponse("dependencies", id, depth, "outgoing")
    /\ UNCHANGED <<scheduler, workers, adhoc, registry, notifier, recVars>>

\* GET /assets/{id}/graph/impact?depth=
handleGetImpactGraph(ids, depths) ==
    /\ \E id \in ids, depth \in depths :
          client' = GraphResponse("impact", id, depth, "incoming")
    /\ UNCHANGED <<scheduler, workers, adhoc, registry, notifier, recVars>>

PathIds == 1..4
Depths == {-1, 0, 1, 2, 11}
\* every pair of nodes has its own relationship id
PathRelationships ==
    {[id |-> 10 * f + t, from_id |-> f, to_id |-> t, type |-> "RUNS_ON",
      source |-> "nmap"] : f \in PathIds, t \in PathIds}

InitTraverse == InitGraph

NextTraverse ==
    \/ GraphUpsertNode(PathIds)
    \/ GraphUpsertRelationship(PathRelationships, MaxPathEdges)
    \/ handleGetDependencyGraph(PathIds, Depths)
    \/ handleGetImpactGraph(PathIds, Depths)

SpecTraverse == InitTraverse /\ [][NextTraverse]_vars

(***************************************************************************)
(* Listing assets: Store.List of the canonical store and the handler with  *)
(* its pagination helper.                                                  *)
(***************************************************************************)
DefaultLimit == 50
MaxLimit == 100

\* Store.List: the rows that match the filter, ordered by updated_at
\* descending, from row offset on and at most limit of them; limit <= 0
\* becomes 50 and offset < 0 becomes 0
StoreList(filter) ==
    LET matched == {a \in assets : filter.Source = "" \/ a.source = filter.Source}
        limit   == IF filter.Limit <= 0 THEN DefaultLimit ELSE filter.Limit
        offset  == IF filter.Offset < 0 THEN 0 ELSE filter.Offset
        before(a) == Cardinality({x \in matched : x.updated_at > a.updated_at})
    IN  [assets |-> {a \in matched : before(a) >= offset /\ before(a) < offset + limit},
         total  |-> Cardinality(matched),
         limit  |-> limit]

\* paginationParams: limit <= 0 or limit > 100 becomes 50, offset < 0
\* becomes 0
paginationParams(limit, offset) ==
    [limit  |-> IF limit <= 0 \/ limit > MaxLimit THEN DefaultLimit ELSE limit,
     offset |-> IF offset < 0 THEN 0 ELSE offset]

\* the query parameters of a list request, and the filters of a caller of
\* the store
Limits == {-1, 0, 1, 100, 101}
Offsets == {-1, 0, 10}
SourceFilters == {"", "nmap"}

\* GET /assets?source=&limit=&offset=
handleListAssets ==
    /\ \E source \in SourceFilters, limit \in Limits, offset \in Offsets :
          LET page == paginationParams(limit, offset)
              got  == StoreList([Source |-> source, Limit |-> page.limit,
                                 Offset |-> page.offset])
          IN  client' = [op |-> "handleListAssets", limit |-> limit,
                         offset |-> offset, status |-> 200,
                         data |-> {a.id : a \in got.assets},
                         total |-> got.total, used |-> got.limit]
    /\ UNCHANGED <<scheduler, workers, adhoc, registry, notifier, recVars>>

\* a caller of the store's List with a filter of its own
StoreListCall ==
    /\ \E source \in SourceFilters, limit \in Limits, offset \in Offsets :
          LET got == StoreList([Source |-> source, Limit |-> limit,
                                Offset |-> offset])
          IN  client' = [op |-> "List", limit |-> limit, offset |-> offset,
                         status |-> 200, data |-> {a.id : a \in got.assets},
                         total |-> got.total, used |-> got.limit]
    /\ UNCHANGED <<scheduler, workers, adhoc, registry, notifier, recVars>>

\* a row that an nmap run stored at time k
StoredRow(k) ==
    [id |-> k, external_id |-> "10.0.1." \o ToString(k), source |-> "nmap",
     asset_type |-> "host", name |-> "", fqdn |-> NilFQDN,
     ip_addresses |-> <<"10.0.1." \o ToString(k)>>, attributes |-> "{}",
     first_seen |-> k, last_seen |-> k, status |-> AssetStatusActive,
     created_at |-> k, updated_at |-> k]

TableSizes == {0, 100}

\* a table of n rows, and the budget for one more by POST /assets
InitList ==
    /\ \E n \in TableSizes :
          /\ assets = {StoredRow(k) : k \in 1..n}
          /\ clock = n
          /\ uuid = n
    /\ change_events = <<>>
    /\ bus = <<>>
    /\ nodes = {}
    /\ edges = {}
    /\ publisher = FALSE
    /\ neoStore = FALSE
    /\ task = [t \in Tasks |-> IdleTask]
    /\ faults = 0
    /\ sightings = 0
    /\ apiCalls = 0
    /\ quota = [sightings |-> 0, faults |-> 0, api |-> MaxApiCalls, tasks |-> {},
                starts |-> 0]
    /\ QuietScheduler
    /\ registry = NewRegistry
    /\ client = NoCall
    /\ notifier = NewNotifier("")

NextList ==
    \/ handleCreateAsset
    \/ handleListAssets
    \/ StoreListCall

SpecList == InitList /\ [][NextList]_vars

(***************************************************************************)
(* The notifier (internal/notifier).                                       *)
(***************************************************************************)
MaxRules == 2

\* a mutant of matches: the sources of the rule are not looked at
matchesAnySource(rule, event) ==
    \E i \in 1..Len(rule.Actions) : rule.Actions[i] = event.action

\* Notifier.matches: some entry of rule.Actions is the event's action, and
\* rule.Sources is empty or some entry of it is the event's source
matches(rule, event) ==
    LET actionMatch ==
            \E i \in 1..Len(rule.Actions) : rule.Actions[i] = event.action
    IN  IF ~actionMatch THEN FALSE
        ELSE IF Len(rule.Sources) > 0
                 THEN \E i \in 1..Len(rule.Sources) : rule.Sources[i] = event.source
                 ELSE TRUE

\* the inner loop of Evaluate: one hand-over per entry of rule.Channels
\* that the switch knows, in order
Dispatch(i, rule) ==
    LET known(ch) == ch \in {"webhook", "email", "telegram"}
        chosen    == SelectSeq(rule.Channels, known)
    IN  [k \in 1..Len(chosen) |-> [rule |-> i, channel |-> chosen[k]]]

\* the outer loop of Evaluate over rules[i..]
RECURSIVE EvaluateFrom(_, _, _)
EvaluateFrom(rules, i, event) ==
    IF i > Len(rules) THEN <<>>
    ELSE (IF matches(rules[i], event) THEN Dispatch(i, rules[i]) ELSE <<>>)
             \o EvaluateFrom(rules, i + 1, event)

\* sendWebhook for each hand-over to the webhook channel: nothing without a
\* webhookURL, else the event is posted
Webhooks(webhookURL, sent, event) ==
    LET isWebhook(d) == d.channel = "webhook"
        calls        == SelectSeq(sent, isWebhook)
    IN  IF webhookURL = "" THEN <<>>
        ELSE [k \in 1..Len(calls) |-> event]

\* the rules AddRule is given
RuleActions == {<<>>, <<"asset.created">>, <<"asset.updated", "asset.removed">>}
RuleSources == {<<>>, <<"nmap">>, <<"nmap", "vmware">>}
RuleChannels == {<<>>, <<"webhook">>, <<"email", "webhook">>}
AlertRules == [Actions : RuleActions, Sources : RuleSources, Channels : RuleChannels]

\* the change events Evaluate is given
NotifiedEvents ==
    [action : {"asset.created", "asset.updated", "asset.removed"},
     source : {"nmap", "vmware", "zabbix"}]

\* Notifier.AddRule
AddRule ==
    /\ Len(notifier.rules) < MaxRules
    /\ \E rule \in AlertRules :
          notifier' = [notifier EXCEPT !.rules = Append(@, rule)]
    /\ UNCHANGED <<scheduler, workers, adhoc, registry, client, recVars>>

\* Notifier.Evaluate
Evaluate ==
    /\ \E event \in NotifiedEvents :
          LET sent == EvaluateFrom(notifier.rules, 1, event)
          IN  notifier' = [notifier EXCEPT
                              !.event = event,
                              !.sent = sent,
                              !.posted = Webhooks(notifier.webhookURL, sent, event)]
    /\ UNCHANGED <<scheduler, workers, adhoc, registry, client, recVars>>

WebhookURLs == {"", "http://hooks.example/arch"}

InitNotifier ==
    /\ QuietStores
    /\ QuietScheduler
    /\ registry = NewRegistry
    /\ client = NoCall
    /\ \E webhookURL \in WebhookURLs : notifier = NewNotifier(webhookURL)

NextNotifier ==
    \/ AddRule
    \/ Evaluate

SpecNotifier == InitNotifier /\ [][NextNotifier]_vars

(***************************************************************************)
(* detectChanges on its own: two records, and the diff with the branch of  *)
(* reconcileAsset it selects.                                              *)
(***************************************************************************)
\* the fields of an asset that the two records may differ in
Described ==
    [name : Hostnames, fqdn : {NilFQDN, "", "web01"},
     attributes : {"{}", NmapAttributes, Jsonb(NmapAttributes)},
     ip_addresses : {<<"10.0.0.5">>, <<"10.0.0.6">>},
     asset_type : {"host", "vm"}]

\* detectChanges(existing, incoming), and reconcileAsset line 132:
\* publishEvent is reached only with len(diff) > 0
DetectChangesCall ==
    /\ client.op = "compare"
    /\ LET diff == detectChanges(client.existing, client.incoming)
       IN  client' = [op |-> "detectChanges", existing |-> client.existing,
                      incoming |-> client.incoming, diff |-> diff,
                      changed |-> DiffLen(diff) > 0]
    /\ UNCHANGED <<scheduler, workers, adhoc, registry, notifier, recVars>>

InitDiff ==
    /\ QuietStores
    /\ QuietScheduler
    /\ registry = NewRegistry
    /\ notifier = NewNotifier("")
    /\ \E existing \in Described, incoming \in Described :
          client = [op |-> "compare", existing |-> existing, incoming |-> incoming]

NextDiff ==
    DetectChangesCall

SpecDiff == InitDiff /\ [][NextDiff]_vars

(***************************************************************************)
(* Properties of the reconciler.                                           *)
(***************************************************************************)
\* C1: after a Reconcile call that completed with no failed store call and
\* no other writer, the canonical store holds exactly one record with the
\* (source, external_id) of each asset of the batch
C1_OneRecordPerIncoming ==
    \A t \in Tasks :
        (/\ task[t].pc = "done"
         /\ task[t].run.clean
         /\ task[t].run.errors = 0
         /\ task[t].run.warnings = 0)
        => \A k \in DOMAIN task[t].result.Assets :
              LET incoming == task[t].result.Assets[k]
              IN  Cardinality({a \in assets :
                                  /\ a.source = incoming.source
                                  /\ a.external_id = incoming.external_id}) = 1

\* C2: a Reconcile call given the snapshot of the call before it, with no
\* other writer in between and no failed call, emits no change event: it
\* appends nothing to the history and publishes nothing
C2_ReplayEmitsNothing ==
    \A t \in Tasks :
        (/\ task[t].run.replay
         /\ task[t].run.clean
         /\ task[t].run.errors = 0
         /\ task[t].run.warnings = 0)
        => /\ task[t].run.appended = <<>>
           /\ task[t].run.published = <<>>

\* C3: with no record of the incoming (source, external_id), no failed call
\* and no other writer, the match is the single candidate of the first IP in
\* list order that has exactly one candidate; IPs with no candidate or with
\* several are passed over; so an asset is inserted only when no IP (and not
\* the FQDN) has a single candidate, and otherwise that candidate is updated
C3_SingleCandidateMatch ==
    \A t \in Tasks :
        LET tk == task[t]
            incoming == tk.incoming
            ips == incoming.ip_addresses
            hits == {n \in DOMAIN ips : Cardinality(FindByIP(ips[n])) = 1}
            first == CHOOSE n \in hits : \A m \in hits : n <= m
            byFQDN == IF incoming.fqdn \in {NilFQDN, ""}
                         THEN {} ELSE FindByFQDN(incoming.fqdn)
        IN  (/\ tk.pc \in {"Now", "Create", "Update"}
             /\ tk.run.clean
             /\ tk.run.errors = 0
             /\ tk.run.warnings = 0
             /\ GetByExternalID(incoming.source, incoming.external_id).id = 0)
            => /\ hits # {} =>
                    /\ tk.pc # "Create"
                    /\ \E a \in FindByIP(ips[first]) : a.id = tk.existing.id
               /\ (hits = {} /\ Cardinality(byFQDN) = 1) =>
                    /\ tk.pc # "Create"
                    /\ \E a \in byFQDN : a.id = tk.existing.id
               /\ (hits = {} /\ Cardinality(byFQDN) # 1) =>
                    /\ tk.pc # "Update"
                    /\ tk.existing.id = 0

\* C3 happens: an asset is about to be inserted although two stored assets
\* hold one of its IPs
C3_TwoCandidatesInserted ==
    \E t \in Tasks :
        /\ task[t].pc = "Create"
        /\ task[t].run.clean
        /\ task[t].run.errors = 0
        /\ task[t].run.warnings = 0
        /\ \E ip \in Elems(task[t].incoming.ip_addresses) :
              Cardinality(FindByIP(ip)) >= 2

\* C4: every change event in the history or on the bus has a non-empty
\* object as diff when its action is asset.updated and null as diff when its
\* action is asset.created
C4_EventDiffShape ==
    \A e \in Elems(change_events) \cup {m.data : m \in Elems(bus)} :
        /\ e.action = ChangeActionUpdated => (~e.diff.null /\ e.diff.object # {})
        /\ e.action = ChangeActionCreated => e.diff.null

\* C4 happens: the history holds an asset.created and an asset.updated event
C4_BothActionsEmitted ==
    /\ \E e \in Elems(change_events) : e.action = ChangeActionCreated
    /\ \E e \in Elems(change_events) : e.action = ChangeActionUpdated
    /\ \E m \in Elems(bus) : m.data.action = ChangeActionUpdated

\* C5: when a Reconcile call has returned, the asset.created events it
\* appended to the history and the ones it published are as many as the rows
\* it inserted
C5_CreatedEventsMatchInserts ==
    \A t \in Tasks :
        task[t].pc = "done"
        => LET run == task[t].run
           IN  /\ Cardinality({n \in DOMAIN run.appended :
                      run.appended[n].action = ChangeActionCreated}) = run.inserted
               /\ Cardinality({n \in DOMAIN run.published :
                      run.published[n].data.action = ChangeActionCreated}) = run.inserted

\* C6: every stored asset has first_seen <= last_seen <= updated_at
C6_TimestampOrder ==
    \A a \in assets :
        /\ a.first_seen <= a.last_seen
        /\ a.last_seen <= a.updated_at

\* C6 happens: after an HTTP write, an asset that the reconciler has seen
\* again has three different timestamps
C6_SeenAgainAndEdited ==
    /\ apiCalls > 0
    /\ \E a \in assets :
        /\ a.first_seen < a.last_seen
        /\ a.last_seen < a.updated_at

\* C7: the update of a matched asset whose diff is empty changes nothing of
\* the stored record but last_seen, which advances, and status, which becomes
\* active; no event is appended or published
C7_NoOpResighting ==
    [][\A t \in Tasks :
          (/\ task[t].pc = "Update"
           /\ DiffLen(task[t].diff) = 0
           /\ task[t].run.clean
           /\ task'[t].pc # "Update"
           /\ assets' # assets)
          => /\ \A a \in assets : \E b \in assets' :
                   /\ b.id = a.id
                   /\ a.id # task[t].existing.id => b = a
                   /\ a.id = task[t].existing.id =>
                        /\ b = [a EXCEPT !.last_seen = b.last_seen,
                                         !.status = AssetStatusActive]
                        /\ b.last_seen > a.last_seen
             /\ change_events' = change_events
             /\ bus' = bus]_vars

\* C8: no step of a reconciliation that no other writer interferes with
\* changes the status of a stored asset whose status is removed
C8_RemovedIsTerminal ==
    [][\A t \in Tasks :
          (task[t].run.clean /\ task'[t].pc # task[t].pc)
          => \A a \in assets : \A b \in assets' :
                (a.status = AssetStatusRemoved /\ b.id = a.id)
                => b.status = AssetStatusRemoved]_vars

\* C9: (source, external_id) is unique among the stored assets; and when the
\* reconciliations are over, no call failed and no HTTP request was made, every
\* asset whose insert lost against a concurrent insert of the same pair has
\* exactly one stored row for the pair, with exactly one asset.created event
\* in the history, and neither a graph node nor an event of its own
C9_RaceOnCreate ==
    /\ \A a \in assets, b \in assets :
          (a.source = b.source /\ a.external_id = b.external_id) => a = b
    /\ (/\ apiCalls = 0
        /\ faults = 0
        /\ \A t \in Tasks : task[t].pc \in {"idle", "done"})
       => \A t \in Tasks : \A k \in task[t].run.lost :
             LET incoming == task[t].result.Assets[k]
                 rows == {a \in assets : /\ a.source = incoming.source
                                         /\ a.external_id = incoming.external_id}
             IN  /\ Cardinality(rows) = 1
                 /\ \A a \in rows :
                       Cardinality({n \in DOMAIN change_events :
                           /\ change_events[n].asset_id = a.id
                           /\ change_events[n].action = ChangeActionCreated}) = 1
                 /\ \A n \in nodes : n.id # incoming.id
                 /\ \A e \in Elems(change_events) : e.asset_id # incoming.id
                 /\ \A m \in Elems(bus) : m.data.asset_id # incoming.id

C11_FailedCreateLeavesNothing ==
    \A t \in Tasks : \A k \in task[t].run.dropped :
        LET id == task[t].result.Assets[k].id
        IN  /\ GetByID(id).id = 0
            /\ \A n \in nodes : n.id # id
            /\ \A e \in Elems(change_events) : e.asset_id # id
            /\ \A m \in Elems(bus) : m.data.asset_id # id
            /\ \A e \in Elems(task[t].run.appended) : e.asset_id # id
            /\ \A m \in Elems(task[t].run.published) : m.data.asset_id # id
            /\ task[t].run.errors >= Cardinality(task[t].run.dropped)

\* C11 happens: with a graph store and a publisher configured, a run is over
\* in which the Create of an asset failed
C11_CreateFailedInRun ==
    \E t \in Tasks :
        /\ task[t].pc = "done"
        /\ task[t].run.dropped # {}
        /\ neoStore
        /\ publisher

\* C12 as stated: when the run is over and no HTTP request was made, every
\* asset whose graph node upsert failed has its stored row, its event in the
\* change history and on the bus, and no error was counted; and whenever the
\* node upsert is about to be made the canonical row is already stored
C12_GraphFailureKeepsOutcome ==
    \A t \in Tasks :
        LET tk == task[t]
        IN  /\ (tk.pc = "done" /\ apiCalls = 0) =>
                \A f \in tk.run.nodeFailed :
                    /\ GetByID(f.id).id # 0
                    /\ tk.run.errors = 0
                    /\ \E e \in Elems(tk.run.appended) :
                          e.asset_id = f.id /\ e.action = f.action
                    /\ \E m \in Elems(tk.run.published) :
                          /\ m.data.asset_id = f.id
                          /\ m.subject = "assets." \o f.action
            /\ (tk.pc = "UpsertNode" /\ apiCalls = 0) =>
                  GetByID(Written(tk).id).id # 0

\* C13: the steps of a task are those that change its position.  The history
\* append and the publish change neither the assets table
\* nor the error count of the run; whatever the outcome of the append, the
\* publish of the same event comes next; a message reaches the bus only in
\* the publish step, and the publish step is entered only from the append
C13_AppendThenPublish ==
    [][\A t \in Tasks :
          /\ (task[t].pc \in {"CreateChangeEvent", "Publish"} /\ task'[t].pc # task[t].pc) =>
                /\ assets' = assets
                /\ task'[t].run.errors = task[t].run.errors
                /\ task'[t].run.returned # "error"
          /\ (task[t].pc = "CreateChangeEvent" /\ task'[t].pc # task[t].pc) =>
                /\ task'[t].pc = "Publish"
                /\ task'[t].event.asset_id = task[t].event.asset_id
                /\ task'[t].event.action = task[t].event.action
                /\ bus' = bus
          /\ (task'[t].pc = "Publish" /\ task[t].pc # "Publish") =>
                task[t].pc = "CreateChangeEvent"
          /\ (task[t].pc = "Publish" /\ task'[t].pc # task[t].pc /\ bus' # bus) =>
                bus' = Append(bus, [subject |-> "assets." \o task[t].event.action,
                                    data |-> task[t].event])
          /\ bus' # bus => \E u \in Tasks : task[u].pc = "Publish" /\ task'[u].pc # task[u].pc
      ]_vars

\* C13 happens: an event whose history append failed is on the bus, and the
\* asset it is about is stored
C13_PublishedAfterFailedAppend ==
    \E m \in Elems(bus) :
        /\ m.data \notin Elems(change_events)
        /\ GetByID(m.data.asset_id).id # 0
        /\ faults > 0

\* C14: no worker begins a collection on a tick that fired while its
\* previous collection was still running
C14_TicksDoNotStack ==
    \A w \in Loops : workers[w].on # "during"

\* C15: Stop returns only in a state where every goroutine that Start
\* started has exited and none is inside Collect or Reconcile
C15_StopWaitsForWorkers ==
    [][(scheduler.stop # "returned" /\ scheduler'.stop = "returned") =>
          \A w \in Loops :
              /\ workers'[w].pc \in {"none", "exited"}
              /\ workers'[w].collecting = 0
              /\ workers'[w].reconciling = 0
      ]_vars

\* C15 happens: Stop has returned and a worker that ran its collector on a
\* tick has exited
C15_StoppedAfterRuns ==
    /\ scheduler.stop = "returned"
    /\ \E w \in Loops :
          workers[w].pc = "exited" /\ workers[w].on \in {"during", "after"}

\* C16: a Stop call that is waiting leads to Stop having returned with every
\* worker exited, unless Start is called again after that Stop call
C16_StopEventuallyReturns ==
    (scheduler.stop = "waiting") ~>
        \/ /\ scheduler.stop = "returned"
           /\ \A w \in Loops : workers[w].pc \in {"none", "exited"}
        \/ scheduler.started # scheduler.seen

\* C17: once Stop has been called on a started scheduler, and Start was not
\* called again, the context of a RunCollectorNow goroutine that is inside
\* Collect is cancelled
C17_RunNowCancelledByStop ==
    (/\ adhoc.pc = "collect"
     /\ scheduler.stop \in {"waiting", "returned"}
     /\ scheduler.seen > 0
     /\ scheduler.started = scheduler.seen)
    => Cancelled(adhoc.ctx)

\* C18: a worker never has more than one body (Collect, then Reconcile) in
\* progress, and while it waits in its select it has none; a body begins only
\* when none is in progress
C18_BodiesSerialized ==
    [][\A w \in Loops :
          /\ workers[w].collecting + workers[w].reconciling <= 1
          /\ workers[w].pc = "select" =>
                workers[w].collecting + workers[w].reconciling = 0
          /\ workers'[w].collecting > workers[w].collecting =>
                workers[w].collecting + workers[w].reconciling = 0
      ]_vars

\* C18 happens: a worker is inside Collect in an iteration begun on a tick
\* that fired during the iteration before, and the ticker has fired again
C18_NextIterationRunning ==
    \E w \in Loops :
        /\ workers[w].on = "during"
        /\ workers[w].collecting = 1
        /\ workers[w].ticker = "during"

\* C19: the step in which Collect returns an error (the body leaves Collect
\* and is marked failed) starts no Reconcile,
\* leaves the worker waiting in its select, leaves the WaitGroup and every
\* other worker as they are; and a worker that waits in its select with a
\* tick in the buffer can take it and run Collect, whatever failed before
C19_WorkerSurvivesCollectError ==
    [][\A w \in Loops :
          /\ (/\ workers'[w].collecting < workers[w].collecting
              /\ workers'[w].failed) =>
                /\ workers'[w].reconciling = workers[w].reconciling
                /\ workers'[w].pc = "select"
                /\ scheduler' = scheduler
                /\ \A v \in Loops \ {w} : workers'[v] = workers[v]
          /\ (workers[w].pc = "select" /\ workers[w].ticker # "empty") =>
                ENABLED TickArm(w)
          /\ (/\ workers[w].pc = "select"
              /\ workers[w].ticker # "empty"
              /\ workers'[w].ticker = "empty"
              /\ workers'[w].pc # "exited") =>
                workers'[w].collecting = 1
      ]_vars

\* C19 happens: after a Collect that failed, the worker is inside Collect
\* again on a later tick, while the worker of the other collector is inside
\* Reconcile
C19_CollectsAgainAfterError ==
    \E w \in Loops, v \in Loops :
        /\ workers[w].failed
        /\ workers[w].collecting = 1
        /\ workers[w].on \in {"during", "after"}
        /\ v[2] # w[2]
        /\ workers[v].reconciling = 1

\* C20: the status of a collector says running exactly while a Collect or
\* Reconcile of that collector is in progress; once a worker of the collector
\* finished a run last_run is set; last_error is set when that run failed at
\* Collect, and last_success and a positive asset_count when it did not
C20_StatusTracksRuns ==
    \A c \in Collectors :
        LET status == StatusOf(registry, c)
            loops == {w \in Loops : w[2] = c}
        IN  /\ status.Running =
                  \/ \E w \in loops :
                        workers[w].collecting + workers[w].reconciling > 0
                  \/ adhoc.name = c /\ adhoc.pc \in {"collect", "reconcile"}
            /\ \A w \in loops :
                  (workers[w].pc = "select" /\ workers[w].on # "none") =>
                      /\ status.LastRun # 0
                      /\ workers[w].failed => status.LastError # ""
                      /\ ~workers[w].failed =>
                            status.LastSuccess # 0 /\ status.AssetCount > 0

\* C25: every edge of the graph store connects two ids that are graph nodes
\* and that are stored assets
C25_EdgeEndpointsExist ==
    \A e \in edges :
        /\ \E n \in nodes : n.id = e.from_id
        /\ \E m \in nodes : m.id = e.to_id
        /\ GetByID(e.from_id).id # 0
        /\ GetByID(e.to_id).id # 0

\* C21: a Start call starts, for the context it derives, one worker for each
\* registered collector that is enabled and none for a disabled one, adds as
\* many to the WaitGroup and leaves the other workers alone; a worker begins
\* its first body at once, before it waits in its select, and every later body
\* by taking one tick from its ticker; the ticker's interval is the configured
\* one when that is positive and 5 minutes otherwise
C21_OneWorkerPerEnabledCollector ==
    [][/\ scheduler'.started # scheduler.started =>
             LET ctx == scheduler'.started
                 enabled == {c \in Names(registry) : registry.configs[c].Enabled}
             IN  /\ \A w \in Loops :
                        workers'[w].pc # workers[w].pc <=>
                            (w[1] = ctx /\ w[2] \in enabled)
                 /\ \A c \in enabled : workers'[<<ctx, c>>].pc = "start"
                 /\ scheduler'.wg = scheduler.wg + Cardinality(enabled)
       /\ \A w \in Loops :
             /\ workers[w].pc = "start" => workers[w].on = "none"
             /\ workers[w].pc = "select" => workers[w].on # "none"
             /\ (workers[w].pc = "start" /\ workers'[w].pc # "start") =>
                   /\ workers'[w].collecting = 1
                   /\ workers'[w].on = "start"
                   /\ workers'[w].ticker = "empty"
             /\ (workers[w].pc # "start"
                 /\ workers'[w].collecting > workers[w].collecting) =>
                   /\ workers[w].pc = "select"
                   /\ workers[w].ticker # "empty"
                   /\ workers'[w].ticker = "empty"
                   /\ workers'[w].collecting = workers[w].collecting + 1
             /\ workers[w].pc \in {"select", "busy"} =>
                   workers[w].interval =
                       IF registry.configs[w[2]].Interval > 0
                           THEN registry.configs[w[2]].Interval
                           ELSE 300
      ]_vars

\* C21 happens: with vmware disabled and a configured interval that is not
\* positive, Start was called, no vmware worker was started, and the nmap
\* worker is inside a body it began on a tick
C21_StartedEnabledOnly ==
    /\ ~registry.configs["vmware"].Enabled
    /\ registry.configs["nmap"].Interval <= 0
    /\ workers[<<1, "vmware">>].pc = "none"
    /\ workers[<<1, "nmap">>].pc = "busy"
    /\ workers[<<1, "nmap">>].on = "after"

\* C24: Get gives an error for every name that is not registered; a
\* RunCollectorNow call for such a name gives that error back and starts
\* nothing; a call for a registered name starts one goroutine that runs that
\* collector; either way the workers, their tickers and the scheduler are
\* left as they are
C24_RunNowLooksUpByName ==
    [][/\ \A name \in RunNames :
             name \notin Names(registry) => Get(registry, name).err # "nil"
       /\ (\/ adhoc'.asked # adhoc.asked
           \/ adhoc'.err # adhoc.err
           \/ adhoc'.pc = "collect" /\ adhoc.pc # "collect") =>
             /\ workers' = workers
             /\ scheduler' = scheduler
             /\ IF adhoc'.asked \in Names(registry)
                   THEN /\ adhoc'.pc = "collect"
                        /\ adhoc'.name = adhoc'.asked
                        /\ adhoc'.err = "nil"
                   ELSE /\ adhoc'.err = Get(registry, adhoc'.asked).err
                        /\ adhoc'.err # "nil"
                        /\ adhoc'.pc = adhoc.pc
                        /\ adhoc'.name = adhoc.name
      ]_vars

\* C24 happens: after a goroutine of RunCollectorNow ran to its end, a call
\* for a name that is not registered was refused while a worker is inside
\* Collect with a tick in its ticker
C24_RefusedUnknownName ==
    /\ adhoc.err # "nil"
    /\ adhoc.pc = "done"
    /\ \E w \in Loops : workers[w].collecting = 1 /\ workers[w].ticker # "empty"

\* the statuses the registry holds, by name
LiveStatuses(reg) ==
    [name \in DOMAIN reg.statuses |-> StatusOf(reg, name)]

\* C22: after Register(c, cfg) the name of cfg is among the names and Get of
\* that name gives c and cfg; the registry has one entry more when no
\* configuration of that name was registered before, and as many as before
\* when one was
C22_RegisterKeyedByConfigName ==
    [][client'.op = "Register" /\ registry' # registry =>
          LET c == client'.collector
              cfg == client'.config
              before == {registry.configs[n].Name : n \in Names(registry)}
          IN  /\ cfg.Name \in Names(registry')
              /\ Get(registry', cfg.Name).err = "nil"
              /\ Get(registry', cfg.Name).collector = c
              /\ Get(registry', cfg.Name).config = cfg
              /\ Cardinality(Names(registry')) =
                    IF cfg.Name \in before
                        THEN Cardinality(Names(registry))
                        ELSE Cardinality(Names(registry)) + 1
      ]_vars

\* C23: a write by a caller to a status it was given by List leaves the
\* statuses the registry holds as they were
C23_ListReturnsCopies ==
    [][client'.op = "write" /\ registry' # registry =>
          LiveStatuses(registry') = LiveStatuses(registry)
      ]_vars

\* C26: the graph holds at most one edge per relationship id
C26_OneEdgePerRelationshipId ==
    \A e \in edges, f \in edges : e.id = f.id => e = f

\* C29: what the relationships request returns for an asset is the set of
\* the stored edges that start or end at the asset, each with the stored
\* from_id and to_id
C29_RelationshipsKeepDirection ==
    [][(client' # client /\ client'.op = "relationships" /\ client'.status = 200) =>
          client'.data =
              {e \in edges : e.from_id = client'.id \/ e.to_id = client'.id}]_vars

\* the ids within d hops of the front, the front included
RECURSIVE Within(_, _, _)
Within(front, d, direction) ==
    IF d = 0 THEN front
    ELSE Within(front \cup {Reaches(e, direction) :
                               e \in {x \in edges : Leaves(x, direction) \in front}},
                d - 1, direction)

\* a graph request for an existing node with a depth of 1 to 10 was answered
Traversed(direction) ==
    /\ client' # client
    /\ client'.op = (IF direction = "outgoing" THEN "dependencies" ELSE "impact")
    /\ client'.status = 200
    /\ client'.depth \in 1..10
    /\ \E n \in nodes : n.id = client'.id

\* C27: a dependency (impact) request for node a with depth d returns the
\* nodes within d outgoing (incoming) hops of a, a included, and the edges
\* on those paths with their endpoints
C27_TraversalReturnsReachable ==
    [][\A direction \in {"outgoing", "incoming"} :
          Traversed(direction) =>
              /\ {a.id : a \in client'.assets} =
                     Within({client'.id}, client'.depth, direction)
              /\ {<<r.id, r.from_id, r.to_id>> : r \in client'.relationships} =
                     {<<e.id, e.from_id, e.to_id>> :
                         e \in {x \in edges :
                                   Leaves(x, direction) \in
                                       Within({client'.id}, client'.depth - 1,
                                              direction)}}]_vars

\* C28: a graph request with depth <= 0 is traversed with depth 3, and one
\* with depth > 10 is rejected: no traversal of more than 10 hops is run
C28_DepthDefaultedAndCapped ==
    [][(client' # client /\ client'.op \in {"dependencies", "impact"}) =>
          /\ client'.depth <= 0 =>
                 (client'.status = 200 /\ client'.hops = DefaultDepth)
          /\ client'.depth > 10 => client'.status # 200
          /\ client'.status = 200 => client'.hops <= 10]_vars

\* C30: a list answer never has more than 100 rows: a requested limit of 0
\* or below or above 100 is replaced by 50 and a limit in 1..100 is used as
\* given, through the handler and through the store's List itself
C30_ListLimitClamped ==
    [][(client' # client /\ client'.op \in {"handleListAssets", "List"}) =>
          /\ Cardinality(client'.data) <= MaxLimit
          /\ client'.used = IF client'.limit <= 0 \/ client'.limit > MaxLimit
                                THEN DefaultLimit ELSE client'.limit]_vars

\* the rule matches the event as the specification defines it
RuleMatch(rule, event) ==
    /\ event.action \in {rule.Actions[k] : k \in 1..Len(rule.Actions)}
    /\ \/ rule.Sources = <<>>
       \/ event.source \in {rule.Sources[k] : k \in 1..Len(rule.Sources)}

\* what Evaluate handed over for rule i, as a list of channels
SentFor(sent, i) ==
    LET mine(d) == d.rule = i
        own     == SelectSeq(sent, mine)
    IN  [k \in 1..Len(own) |-> own[k].channel]

\* C31: Evaluate hands the event to the channels of a rule iff the event's
\* action is in the rule's actions and the rule's sources are empty or hold
\* the event's source: once to each channel of a matching rule, nothing for
\* the others
C31_DispatchIffMatch ==
    [][(notifier'.rules = notifier.rules /\ notifier' # notifier) =>
          \A i \in 1..Len(notifier.rules) :
              SentFor(notifier'.sent, i) =
                  IF RuleMatch(notifier.rules[i], notifier'.event)
                      THEN notifier.rules[i].Channels
                      ELSE <<>>]_vars

\* an Evaluate with two rules: one matched, with two channels, the other
\* with a source list that does not hold the event's source
C31_MatchedAndUnmatchedRule ==
    /\ Len(notifier.rules) = 2
    /\ notifier.event.action # ""
    /\ \E i \in 1..2 :
          /\ RuleMatch(notifier.rules[i], notifier.event)
          /\ Len(SentFor(notifier.sent, i)) = 2
    /\ \E i \in 1..2 :
          /\ notifier.rules[i].Sources # <<>>
          /\ notifier.rules[i].Channels # <<>>
          /\ notifier.event.action \in
                 {notifier.rules[i].Actions[k] : k \in 1..Len(notifier.rules[i].Actions)}
          /\ ~RuleMatch(notifier.rules[i], notifier.event)
          /\ SentFor(notifier.sent, i) = <<>>

\* C32: the cascade goes exact pair, then IPs, then FQDN, and stops at the
\* first match: an exact match is the match and no IP or FQDN lookup follows
\* it; an IP lookup starts only while nothing is matched; the FQDN lookup
\* starts only when nothing is matched and the incoming FQDN is not empty,
\* and matches only a single candidate; with no match the insert follows
C32_CascadeOrder ==
    [][\A t \in Tasks :
          LET a == task[t]
              b == task'[t]
              exact == {x \in assets : /\ x.source = a.incoming.source
                                       /\ x.external_id = a.incoming.external_id}
              sameAsset == b.i = a.i /\ b.pc \in {"FindByIP", "FindByFQDN", "Now"}
          IN  /\ (a.pc = "GetByExternalID" /\ sameAsset) =>
                    /\ exact # {} => (b.existing \in exact /\ b.pc = "Now")
                    /\ exact = {} => b.existing.id = 0
              /\ (b.pc = "FindByIP" /\ b # a) =>
                    /\ a.pc \in {"GetByExternalID", "FindByIP"}
                    /\ b.existing.id = 0
              /\ (a.pc = "FindByIP" /\ sameAsset /\ b.existing.id # 0) =>
                    /\ b.pc = "Now"
                    /\ FindByIP(a.incoming.ip_addresses[a.ip]) = {b.existing}
              /\ (b.pc = "FindByFQDN" /\ a.pc # "FindByFQDN") =>
                    /\ a.pc \in {"GetByExternalID", "FindByIP"}
                    /\ b.existing.id = 0
                    /\ b.incoming.fqdn \notin {NilFQDN, ""}
              /\ (a.pc = "FindByFQDN" /\ b.pc # a.pc) =>
                    /\ b.pc = "Now"
                    /\ b.existing.id # 0 => FindByFQDN(a.incoming.fqdn) = {b.existing}
              /\ (a.pc = "Now" /\ b.pc # a.pc) =>
                    b.pc = IF a.existing.id = 0 THEN "Create" ELSE "Update"]_vars

\* the exact lookup matched while an incoming IP has a different asset as its
\* single candidate
C32_ExactMatchBeforeIPMatch ==
    \E t \in Tasks :
        /\ task[t].pc = "Now"
        /\ task[t].existing.id # 0
        /\ task[t].existing.source = task[t].incoming.source
        /\ task[t].existing.external_id = task[t].incoming.external_id
        /\ \E k \in DOMAIN task[t].incoming.ip_addresses :
              \E x \in assets :
                  /\ x.id # task[t].existing.id
                  /\ FindByIP(task[t].incoming.ip_addresses[k]) = {x}

\* a nil FQDN read as the empty string
FQDNText(asset) ==
    IF asset.fqdn = NilFQDN THEN "" ELSE asset.fqdn

\* C33: the diff has key name iff the names differ, key fqdn iff the FQDNs
\* differ with nil read as "", key attributes iff the blobs differ as text,
\* each with the existing value as old and the incoming one as new, and no
\* other key: records that differ only in ip_addresses or asset_type give
\* an empty diff and no change event
C33_DiffKeys ==
    client.op = "detectChanges" =>
        LET old == client.existing
            new == client.incoming
            entries == client.diff.entries
            keys == {e.field : e \in entries}
        IN  /\ ("name" \in keys) <=> (old.name # new.name)
            /\ ("fqdn" \in keys) <=> (FQDNText(old) # FQDNText(new))
            /\ ("attributes" \in keys) <=> (old.attributes # new.attributes)
            /\ keys \subseteq {"name", "fqdn", "attributes"}
            /\ Cardinality(entries) = Cardinality(keys)
            /\ \A e \in entries :
                  /\ e.field = "name" => (e.old = old.name /\ e.new = new.name)
                  /\ e.field = "fqdn" => (e.old = FQDNText(old) /\ e.new = FQDNText(new))
                  /\ e.field = "attributes" =>
                        (e.old = old.attributes /\ e.new = new.attributes)
            /\ client.changed <=> (keys # {})

\* two records that differ in ip_addresses and asset_type only, one with a
\* nil FQDN and one with the empty one, were compared: the diff is empty
C33_AddressesOnlyDiffer ==
    /\ client.op = "detectChanges"
    /\ client.existing.ip_addresses # client.incoming.ip_addresses
    /\ client.existing.asset_type # client.incoming.asset_type
    /\ client.existing.name = client.incoming.name
    /\ client.existing.attributes = client.incoming.attributes
    /\ client.existing.fqdn = NilFQDN
    /\ client.incoming.fqdn = ""
    /\ client.diff.entries = {}
    /\ ~client.changed

\* the step of task t is a canonical write of a decision: a Create that
\* inserted the row, or an Update with a non-empty diff that did not fail
Decided(t) ==
    \/ /\ task[t].pc = "Create"
       /\ task'[t].run.inserted = task[t].run.inserted + 1
    \/ /\ task[t].pc = "Update"
       /\ DiffLen(task[t].diff) > 0
       /\ task'[t].pc # "Update"
       /\ faults' = faults

\* C36: with or without an event publisher, every insert and every update
\* with a non-empty diff goes on to the history append (after the graph
\* node), and the append adds one row for the asset with the action decided
C36_HistoryWithoutPublisher ==
    [][\A t \in Tasks :
          /\ Decided(t) => task'[t].pc \in {"UpsertNode", "CreateChangeEvent"}
          /\ (task[t].pc = "UpsertNode" /\ task'[t].pc # "UpsertNode") =>
                task'[t].pc = "CreateChangeEvent"
          /\ (/\ task[t].pc = "CreateChangeEvent"
              /\ task'[t].pc # "CreateChangeEvent"
              /\ quota.faults = 0
              /\ quota.api = 0) =>
                /\ Len(change_events') = Len(change_events) + 1
                /\ change_events'[Len(change_events')].asset_id = Written(task[t]).id
                /\ change_events'[Len(change_events')].action = ActionOf(task[t])]_vars

\* C35: once a canonical-store call made for an asset has failed - the
\* exact lookup, an IP lookup, the FQDN lookup, Create or Update - the run
\* writes no row and no event for that asset, and goes on with the batch
C35_FailedAssetSkipped ==
    [][\A t \in Tasks :
          LET a == task[t]
              b == task'[t]
          IN  /\ (/\ a.i \in a.run.failed
                  /\ (b.pc # a.pc \/ b.i # a.i \/ b.ip # a.ip)) =>
                    /\ assets' = assets
                    /\ change_events' = change_events
                    /\ bus' = bus
              /\ b.run.failed # a.run.failed => b.run.returned # "error"]_vars

\* task t has left the asset it was working on
MovedOn(t) ==
    \/ task'[t].i # task[t].i
    \/ task'[t].pc \in {"done", "UpsertRelationship"} /\ task'[t].pc # task[t].pc

\* C34: an update with a non-empty diff makes the stored name, fqdn,
\* ip_addresses and attributes the incoming ones, advances last_seen and
\* updated_at, sets status active and leaves id, source, external_id,
\* asset_type, first_seen and created_at alone, whatever stage matched; and
\* when no call fails the asset is left only after one asset.updated event
\* with that diff was emitted
C34_UpdateFrame ==
    [][\A t \in Tasks :
          LET a == task[t]
              b == task'[t]
              changed == a.existing.id # 0 /\ DiffLen(a.diff) > 0
          IN  /\ (/\ a.pc = "Update"
                  /\ changed
                  /\ b.pc # "Update"
                  /\ faults' = faults) =>
                    \A x \in assets : x.id = a.existing.id =>
                        \E y \in assets' :
                            /\ y.id = x.id
                            /\ y.name = a.incoming.name
                            /\ y.fqdn = a.incoming.fqdn
                            /\ y.ip_addresses = a.incoming.ip_addresses
                            /\ y.attributes = Jsonb(a.incoming.attributes)
                            /\ y.last_seen > x.last_seen
                            /\ y.updated_at > x.updated_at
                            /\ y.status = AssetStatusActive
                            /\ y.source = x.source
                            /\ y.external_id = x.external_id
                            /\ y.asset_type = x.asset_type
                            /\ y.first_seen = x.first_seen
                            /\ y.created_at = x.created_at
              /\ (/\ a.pc \in {"Update", "UpsertNode", "CreateChangeEvent", "Publish"}
                  /\ changed
                  /\ MovedOn(t)
                  /\ quota.faults = 0) =>
                    /\ a.pc = "Publish"
                    /\ bus' = Append(bus, [subject |-> "assets.asset.updated",
                                           data |-> a.event])
                    /\ a.event.asset_id = a.existing.id
                    /\ a.event.action = ChangeActionUpdated
                    /\ a.event.diff = Marshal(a.diff)]_vars

\* the asset.updated events of asset x in the history whose diff has a
\* name entry, by position
NameEvents(x) ==
    {n \in DOMAIN change_events :
        /\ change_events[n].asset_id = x.id
        /\ change_events[n].action = ChangeActionUpdated
        /\ \E d \in change_events[n].diff.object : d.field = "name"}

\* C38: with the reconciler as the only writer, whenever no reconciliation
\* is in progress the stored name of an asset that has asset.updated events
\* with a name entry is the new value of the most recent one
C38_HistoryMatchesName ==
    (/\ apiCalls = 0
     /\ \A t \in Tasks : task[t].pc \in {"idle", "done"})
    => \A x \in assets :
          NameEvents(x) # {} =>
              LET last == CHOOSE n \in NameEvents(x) : \A k \in NameEvents(x) : k <= n
              IN  \E d \in change_events[last].diff.object :
                      d.field = "name" /\ d.new = x.name

\* C37: a reconciler update replaces the stored ip_addresses by the
\* incoming list when name, fqdn or attributes differ as well, and leaves
\* the stored ip_addresses as they are when the incoming record differs
\* from the matched one in ip_addresses at most
C37_AddressesFollowDiff ==
    [][\A t \in Tasks :
          (/\ task[t].pc = "Update"
           /\ task'[t].pc # "Update"
           /\ faults' = faults) =>
              \A x \in assets : x.id = task[t].existing.id =>
                  \E y \in assets' :
                      /\ y.id = x.id
                      /\ y.ip_addresses =
                            IF DiffLen(task[t].diff) > 0
                                THEN task[t].incoming.ip_addresses
                                ELSE x.ip_addresses]_vars

====
